---- MODULE Spec2Model ----
(***************************************************************************)
(* A model of playwright-agent.                                            *)
(*                                                                         *)
(* Part A (Spec, FairSpec): PlaywrightAgent.execute, its lifecycle hooks,  *)
(* the macro tool handed to the LLM client, dispose and the paused flag,   *)
(* with the PlaywrightController's snapshot bookkeeping.  The LLM client   *)
(* (@page-agent/llms) is an external collaborator: a call to invoke either *)
(* rejects or runs the macro tool once on an action object and resolves    *)
(* with what the macro tool returned.                                      *)
(*                                                                         *)
(* Part B (SpecDom, SpecHtml): one PlaywrightController on one page:       *)
(* updateTree with the extraction pass of getFlatTree, getSelectorMap,     *)
(* flatTreeToString and getElementTextMap, run again and again on a page   *)
(* that changes between the passes.  Strings are sequences of characters.  *)
(*                                                                         *)
(* SpecTools: the PlaywrightAgent constructor building this.tools from the *)
(* default tools and one configuration out of a set of configurations.     *)
(*                                                                         *)
(* SpecAttrs: the attribute filter of flatTreeToString's processNode on    *)
(* one indexed node.  SpecScroll: PlaywrightController.scroll and          *)
(* scrollHorizontally on a page with one scroll container.                 *)
(*                                                                         *)
(* SpecInteractive: isInteractiveElement of the page script on one         *)
(* element.  SpecCalls: several execute() calls on one agent, each made    *)
(* at any moment after the one before it, with no failing collaborator.    *)
(***************************************************************************)
EXTENDS Integers, Sequences, FiniteSets, TLC

\* src/src/config/constants.ts:4 sets 50; the model runs the same loop with a
\* smaller budget.
MAX_STEPS == 2

\* The number of execute() calls the model has room for.
MaxTasks == 2

\* waitUntil's timeout, in polls of its 100 ms interval (the source's
\* 60 * 60_1000 ms is 36010 polls).
PollLimit == 1

VARIABLES
    \* ---- PlaywrightAgent fields
    history,          \* this.history: a reference to an array of heap
    heap,             \* the arrays this.history and the results refer to
    paused,           \* this.paused
    disposed,         \* this.disposed
    totalWaitTime,    \* this.#totalWaitTime
    abortController,  \* this.#abortController: the id of the current controller
    signal,           \* per AbortController id: "live", or the abort reason
    config,           \* this.config: [customTools, experimentalScriptExecutionTool]
    thisTools,        \* this.tools: tool name -> tool
    onDispose,        \* the argument of the newest call of config.onDispose
    \* ---- PlaywrightController fields and the page's marker attributes
    snapshots,        \* the number of extraction passes completed on the page
    marks,            \* the pass that stamped the markers now on the page
    selectorMap,      \* [gen: the pass that built it, cleared: emptied by dispose]
    simplifiedHTML,   \* the pass whose serialization it holds, 0 for '<EMPTY>'
    actionResult,     \* the newest call of an element action: [call, result], the
                      \* result being the ActionResult it returned
    \* ---- one execute() call per task id
    pc,               \* where the call is
    step,             \* its local `step`
    sig,              \* the signal its LLM call was given: [controller, aborted as the
                      \* call was made]
    act,              \* the action object of its current step
    out,              \* the output string of the tool of its current step
    polls,            \* failed polls of its pending waitUntil
    inCatch,          \* whether its onAfterTask is the catch block's
    res,              \* the ExecutionResult it built
    \* ---- what its current step has done, as the step's records show
    refreshed,        \* the pass the step's prompt assembly published, 0 before it
    shown,            \* the pass whose serialization is in the step's user prompt
    toolRuns,         \* tool executors started since the step's prompt assembly
    dispatch,         \* what the step's tool found as it started
    llmCalls,         \* LLM calls the task has started
    \* ---- the page and the PlaywrightController's snapshot of it (Part B)
    viewportExpansion, \* config.viewportExpansion ?? VIEWPORT_EXPANSION
    document,         \* the page: [parent, elements, markers]
    controller,       \* [flatTree, simplifiedHTML, selectorMap, elementTextMap]
    swept,            \* whether the newest pass removed a marker of the pass before it
                      \* from an element it gave none
    repeated,         \* whether the newest pass found the page as the pass before it
                      \* had left it
    \* ---- one run of processNode's attribute filter on an indexed node
    include_attributes, \* config.include_attributes
    treeNode,         \* the node: [tagName, attributes, text]
    attributesToInclude, \* [deduped: the keys left by the removal of duplicate
                      \* values, entries: Object.entries(attributesToInclude) at line 601]
    \* ---- the scroll positions of the page and the newest scroll call
    window,           \* [scrollX, scrollY]
    scrollContainer,  \* the page's scroll container: [scrollLeft, scrollTop, range]
    scrolled,         \* [method, options, amount, by, result]
    \* ---- one call of isInteractiveElement
    classified        \* [element, called, isInteractive: what the call returned]

agentVars == <<history, heap, paused, disposed, totalWaitTime, abortController, signal>>
controllerVars == <<snapshots, marks, selectorMap, simplifiedHTML>>
taskVars == <<pc, step, sig, act, out, polls, inCatch, res>>
stepVars == <<refreshed, shown, toolRuns, dispatch, llmCalls>>
domVars == <<viewportExpansion, document, controller, swept, repeated>>
configVars == <<config, thisTools>>
actionVars == <<actionResult>>
serialVars == <<include_attributes, treeNode, attributesToInclude>>
scrollVars == <<window, scrollContainer, scrolled>>
classVars == <<classified>>
vars == <<agentVars, controllerVars, taskVars, stepVars, domVars, configVars, onDispose,
          actionVars, serialVars, scrollVars, classVars>>

Tasks == 1..MaxTasks
ControllerIds == 0..MaxTasks
ArrayIds == 0..(MaxTasks + 1)

----------------------------------------------------------------------------
\* Strings of the source

AbortError == "Error: AbortError"
TimeoutError == "Error: Timeout waiting for condition to become true"
StepLimitText == "Step count exceeded maximum limit"
NoTextProvided == "no text provided"
DisposedReason == "PlaywrightAgent disposed"
ToolNotFound(toolName) == "Error: Tool " \o toolName \o " not found."

\* Errors whose text comes from outside the agent's source
HookError == "Error: hook failed"
LLMError == "Error: LLM call failed"
RefreshError == "Error: page.evaluate failed"
ElementError == "Error: page.evaluate: an element failed"
ToolError == "Error: tool failed"

\* abort() without a reason
DefaultAbortReason == "AbortError: signal is aborted without reason"
UserReason == "user reason"

----------------------------------------------------------------------------
\* The tool registry.  A tool is "default" (the tool src/src/tools/index.ts
\* registers under the name) or "custom" (the one the caller supplied under
\* the name); "null" is the value that removes a name.

IndexedTools == {"click_element_by_index", "input_text", "select_dropdown_option"}

\* The default tools
tools ==
    [n \in {"done", "wait", "ask_user", "click_element_by_index", "input_text",
            "select_dropdown_option", "scroll", "scroll_horizontally",
            "execute_javascript"} |-> "default"]

\* this.tools before the constructor has assigned it
NoTools == [n \in {} |-> "default"]

\* config: customTools is a map from names to "custom" or "null" (empty when
\* the field is missing), experimentalScriptExecutionTool is "true", "false"
\* or "absent"
Config(customTools, experimentalScriptExecutionTool) ==
    [customTools |-> customTools,
     experimentalScriptExecutionTool |-> experimentalScriptExecutionTool]

\* The constructor with the script tool deleted before customTools is applied
constructorToolsGateFirst(cfg) ==
    LET custom == cfg.customTools
        deleted == {n \in DOMAIN custom : custom[n] = "null"}
        set == DOMAIN custom \ deleted
        gated == IF cfg.experimentalScriptExecutionTool = "true" THEN DOMAIN tools
                 ELSE DOMAIN tools \ {"execute_javascript"}
    IN  [n \in (gated \ deleted) \cup set |-> IF n \in set THEN custom[n] ELSE tools[n]]

\* The constructor with a null entry of customTools skipped
constructorToolsKeepNull(cfg) ==
    LET custom == cfg.customTools
        set == {n \in DOMAIN custom : custom[n] # "null"}
        merged == [n \in DOMAIN tools \cup set |->
                      IF n \in set THEN custom[n] ELSE tools[n]]
    IN  IF cfg.experimentalScriptExecutionTool = "true" THEN merged
        ELSE [n \in DOMAIN merged \ {"execute_javascript"} |-> merged[n]]

\* The constructor's registry: a copy of the default tools, then each entry of
\* customTools deleted (null) or set, then execute_javascript deleted unless
\* the flag is truthy
constructorTools(cfg) ==
    LET custom == cfg.customTools
        deleted == {n \in DOMAIN custom : custom[n] = "null"}
        set == DOMAIN custom \ deleted
        merged == [n \in (DOMAIN tools \ deleted) \cup set |->
                      IF n \in set THEN custom[n] ELSE tools[n]]
    IN  IF cfg.experimentalScriptExecutionTool = "true" THEN merged
        ELSE [n \in DOMAIN merged \ {"execute_javascript"} |-> merged[n]]

\* The configuration of the agent of Part A: one custom tool, no script tool
AgentConfig == Config([n \in {"custom_tool"} |-> "custom"], "absent")

\* The configurations a caller can construct an agent with
ConfigNames == {"done", "wait", "execute_javascript", "custom_tool"}

Configs ==
    {Config(c, f) : c \in UNION {[S -> {"custom", "null"}] : S \in SUBSET ConfigNames},
                    f \in {"true", "false", "absent"}}

\* Indexed elements of a snapshot in this part: indices 0..ElementCount-1
ElementCount == 1

\* Action objects the LLM client can hand to the macro tool: `name` is the key
\* the macro tool reads, Object.keys(action)[0] ("undefined" when the object
\* has no key), `input` the value under it and `keys` the number of keys of
\* the object.  "absent" is a missing field.
Absent == "absent"

\* The input of an action object; a field the tool's schema does not have is absent
\* (seconds 0, index -1).
Input(success, text, seconds, index) ==
    [success |-> success, text |-> text, seconds |-> seconds, index |-> index]

NoInput == Input(Absent, Absent, 0, -1)

DoneInputs == {Input(s, x, 0, -1) : s \in {"true", "false", Absent}, x \in {"", "ok"}}

ActionObjects ==
    [name : {"done"}, input : DoneInputs, keys : {1}]
    \cup [name : {"wait"}, input : {Input(Absent, Absent, 1, -1)}, keys : {1}]
    \cup [name : {"click_element_by_index"},
           input : {Input(Absent, Absent, 0, i) : i \in 0..ElementCount}, keys : {1}]
    \cup [name : {"custom_tool", "removed_tool"}, input : {NoInput}, keys : {1}]
    \cup [name : {"undefined"}, input : {NoInput}, keys : {0}]
    \cup [name : {"custom_tool"}, input : {NoInput}, keys : {2}]

NoAction == [name |-> "none", input |-> NoInput, keys |-> 0]
NoResult == [success |-> FALSE, data |-> "none", history |-> 0, via |-> "none"]
NoDispatch == [tool |-> "none", gen |-> 0, marks |-> 0, newest |-> 0, found |-> FALSE]

\* The values of the `target` attribute of a node of the SelectorMap
Targets == {"_blank", Absent}

\* A call of an element action: whether selectorMap.get(index) found a node,
\* that node's attributes.target, and whether the page interaction succeeded
\* (false also when none was attempted)
Call(method, found, target, interacted) ==
    [method |-> method, found |-> found, target |-> target, interacted |-> interacted]

ActionResult(success, message) == [success |-> success, message |-> message]

NoActionResult == [call |-> Call("none", FALSE, Absent, FALSE),
                   result |-> ActionResult(FALSE, "none")]

\* The end of clickElement's message on a link that opens a new tab
NewTabWarning == " Link opens in a new tab. You are not capable of reading new tabs."

\* clickElement that never reads the node's target
clickElementNoTarget(found, target, clicked) ==
    IF ~found
    THEN ActionResult(FALSE, "Failed to click element: no element at index")
    ELSE ActionResult(clicked, IF clicked THEN "Clicked element"
                               ELSE "Failed to click element")

\* PlaywrightController.clickElement(index): `clicked` is result.success of
\* the page's click on the node's locator
clickElement(found, target, clicked) ==
    IF ~found
    THEN ActionResult(FALSE, "Failed to click element: no element at index")
    ELSE IF target = "_blank"
    THEN ActionResult(TRUE, "Clicked element" \o NewTabWarning)
    ELSE ActionResult(clicked, IF clicked THEN "Clicked element"
                               ELSE "Failed to click element")

\* Seconds a wait tool call can take, as Date.now() measures it
Durations == {0, 1}

----------------------------------------------------------------------------
\* Helpers on the agent's state

\* AbortController.abort(reason): a signal is aborted once, with its first reason
abort(sigs, id, reason) ==
    IF sigs[id] = "live" THEN [sigs EXCEPT ![id] = reason] ELSE sigs

aborted(id) == signal[id] # "live"

\* A fresh array for `this.history = []`: one no result holds.  The array the
\* agent leaves is garbage when no result holds it, and its id is used again.
FreshArray(results) ==
    IF \A t \in Tasks : results[t].history # history THEN history
    ELSE CHOOSE a \in ArrayIds : a # history /\ \A t \in Tasks : results[t].history # a

\* The heap once this.history is `fresh`: the array it leaves is kept only while
\* a result still refers to it
Rebind(results, fresh) ==
    [a \in ArrayIds |->
        IF a = fresh THEN <<>>
        ELSE IF a = history /\ \A t \in Tasks : results[t].history # a THEN <<>>
        ELSE heap[a]]

Running(t) == pc[t] \notin {"idle", "returned", "rejected"}

\* The catch block of execute, up to its await of onAfterTask
\* (#onDone aborts the current controller without a reason)
Catch(t, error) ==
    /\ signal' = abort(signal, abortController, DefaultAbortReason)
    /\ res' = [res EXCEPT ![t] = [success |-> FALSE, data |-> error,
                                  history |-> history, via |-> "catch"]]
    /\ inCatch' = [inCatch EXCEPT ![t] = TRUE]
    /\ pc' = [pc EXCEPT ![t] = "onAfterTask"]
    /\ act' = [act EXCEPT ![t] = NoAction]
    /\ out' = [out EXCEPT ![t] = "none"]
    /\ polls' = [polls EXCEPT ![t] = 0]

----------------------------------------------------------------------------
\* The page of Part B: NodeCount elements in document order, element 1 being
\* document.body, each with at most one text node, its first child.

NodeCount == 2

Nodes == 1..NodeCount
Body == 1

\* src/src/config/constants.ts:12
VIEWPORT_EXPANSION == -1

\* null (no node id), undefined (no highlightIndex), no marker attribute
Null == -1
Undefined == -1
NoMarker == -1

\* What page.evaluate can observe of an element: tagName, disabled/readOnly,
\* style.cursor, whether it is rendered with a box (offsetWidth, offsetHeight,
\* visibility, display), whether elementFromPoint at its centre gives it or a
\* descendant, whether its rect meets the viewport, the content of its text
\* node (empty: none) and its title attribute (empty: none).
\* It is not read-only nor editable and has no role and no onclick.
Look(tagName, disabled, cursor, visible, picked, inside, text, title) ==
    [tagName |-> tagName, disabled |-> disabled, cursor |-> cursor,
     visible |-> visible, picked |-> picked, inside |-> inside,
     text |-> text, title |-> title,
     readOnly |-> FALSE, isContentEditable |-> FALSE, contenteditable |-> "",
     role |-> "", onclickAttribute |-> FALSE, onclick |-> FALSE]

BlankLook == Look("div", FALSE, "auto", TRUE, TRUE, TRUE, <<>>, <<>>)

\* Text node contents: none, blank, a word, two lines, and a text that reads
\* like the line of an indexed element
Texts == {<<>>, <<" ">>, <<"x">>, <<"x", "\n", "y">>, <<"[", "0", "]", "<", "b", ">", "x">>}

Titles == {<<>>, <<"t">>, <<"t", "\n", "u">>}

\* Elements for the extraction pass: every combination of the four facts on a
\* link, a div with and without a pointer cursor, and a script element
DomLooks ==
    {Look("a", d, "auto", v, p, i, <<>>, <<>>) : d \in BOOLEAN, v \in BOOLEAN,
                                              p \in BOOLEAN, i \in BOOLEAN}
    \cup {Look("div", FALSE, c, TRUE, TRUE, TRUE, <<>>, <<>>) : c \in {"auto", "pointer"}}
    \cup {Look("script", FALSE, "auto", FALSE, FALSE, FALSE, <<>>, <<>>)}

\* Elements for the serialization: a link with any text, or with a title and
\* a short text, a div with any text, a div that is not rendered, and a div
\* with a pointer cursor and a text
HtmlLooks ==
    {Look("a", FALSE, "auto", TRUE, TRUE, TRUE, x, <<>>) : x \in Texts}
    \cup {Look("a", FALSE, "auto", TRUE, TRUE, TRUE, x, t) :
              x \in {<<>>, <<"x">>}, t \in Titles \ {<<>>}}
    \cup {Look("div", FALSE, "auto", TRUE, TRUE, TRUE, x, <<>>) : x \in Texts}
    \cup {Look("div", FALSE, "auto", FALSE, FALSE, TRUE,
                <<"[", "0", "]", "<", "b", ">", "x">>, <<>>)}
    \cup {Look("div", FALSE, "pointer", TRUE, TRUE, TRUE, x, <<>>) :
              x \in {<<"x">>, <<"x", "\n", "y">>}}

\* The trees on Nodes in which document order is the order of the ids
Shapes ==
    {p \in [Nodes -> 0..NodeCount] :
        p[Body] = 0 /\ \A e \in Nodes \ {Body} : p[e] \in 1..(e - 1)}

NewDocument(parent, markers) ==
    [parent |-> parent,
     elements |-> [e \in Nodes |-> IF e = Body THEN [BlankLook EXCEPT !.tagName = "body"]
                                   ELSE BlankLook],
     markers |-> markers]

\* FlatDomTree | null
NullTree == [rootId |-> Null, map |-> <<>>]

\* No node has been given to the attribute filter, and it has not run
NoNode == [tagName |-> "", attributes |-> <<>>, text |-> <<>>]
NotRun == [deduped |-> <<>>, entries |-> <<"not run">>]

\* The attribute filter has no node and no attribute list
NoFilter ==
    /\ include_attributes = <<>>
    /\ treeNode = NoNode
    /\ attributesToInclude = NotRun

\* The page is at its top left corner and no scroll has been asked for
NoScrollCall ==
    [method |-> "none", options |-> <<>>, amount |-> 0, by |-> "none",
     result |-> [success |-> FALSE, message |-> "none"]]
NoScroll ==
    /\ window = [scrollX |-> 0, scrollY |-> 0]
    /\ scrollContainer = [scrollLeft |-> 0, scrollTop |-> 0, range |-> 0]
    /\ scrolled = NoScrollCall

\* isInteractiveElement has not been called
NotClassified == [element |-> <<>>, called |-> FALSE, isInteractive |-> FALSE]

\* The fields of a new PlaywrightController
NewController ==
    [flatTree |-> NullTree,
     simplifiedHTML |-> <<"<", "E", "M", "P", "T", "Y", ">">>,
     selectorMap |-> <<>>,
     elementTextMap |-> <<>>]

----------------------------------------------------------------------------
\* The fields of a new agent as their initializers set them
NewAgent ==
    /\ onDispose = "none"
    /\ history = 0
    /\ heap = [a \in ArrayIds |-> <<>>]
    /\ paused = FALSE
    /\ disposed = FALSE
    /\ totalWaitTime = 0
    /\ abortController = 0
    /\ signal = [c \in ControllerIds |-> "live"]
    /\ snapshots = 0
    /\ marks = 0
    /\ selectorMap = [gen |-> 0, cleared |-> FALSE]
    /\ simplifiedHTML = 0
    /\ pc = [t \in Tasks |-> "idle"]
    /\ step = [t \in Tasks |-> 0]
    /\ sig = [t \in Tasks |-> [controller |-> 0, aborted |-> FALSE]]
    /\ act = [t \in Tasks |-> NoAction]
    /\ out = [t \in Tasks |-> "none"]
    /\ polls = [t \in Tasks |-> 0]
    /\ inCatch = [t \in Tasks |-> FALSE]
    /\ res = [t \in Tasks |-> NoResult]
    /\ refreshed = [t \in Tasks |-> 0]
    /\ shown = [t \in Tasks |-> 0]
    /\ toolRuns = [t \in Tasks |-> 0]
    /\ dispatch = [t \in Tasks |-> NoDispatch]
    /\ llmCalls = [t \in Tasks |-> 0]
    /\ actionResult = NoActionResult

\* Part A runs on a page that Part B describes; here it is a blank one
Init ==
    /\ NewAgent
    /\ config = AgentConfig
    /\ thisTools = constructorTools(AgentConfig)
    /\ viewportExpansion = VIEWPORT_EXPANSION
    /\ document = NewDocument([e \in Nodes |-> IF e = Body THEN 0 ELSE Body],
                              [e \in Nodes |-> NoMarker])
    /\ controller = NewController
    /\ swept = FALSE
    /\ repeated = FALSE
    /\ NoFilter
    /\ NoScroll
    /\ classified = NotClassified

----------------------------------------------------------------------------
\* PlaywrightAgent.execute

\* execute(task) up to its await of onBeforeTask
execute(t) ==
    /\ pc[t] = "idle"
    /\ pc' = [pc EXCEPT ![t] = "onBeforeTask"]
    /\ UNCHANGED <<step, sig, act, out, polls, inCatch, res>>
    /\ UNCHANGED <<agentVars, controllerVars, stepVars>>
    /\ UNCHANGED <<domVars, serialVars, scrollVars, classVars, configVars, onDispose, actionVars>>

\* onBeforeTask returned: the old controller is aborted and replaced, history reset
onBeforeTaskReturns(t) ==
    /\ pc[t] = "onBeforeTask"
    /\ signal' = abort(signal, abortController, DefaultAbortReason)
    /\ abortController' = abortController + 1
    /\ history' = FreshArray(res)
    /\ heap' = Rebind(res, history')
    /\ step' = [step EXCEPT ![t] = 0]
    /\ pc' = [pc EXCEPT ![t] = "onBeforeStep"]
    /\ UNCHANGED <<paused, disposed, totalWaitTime>>
    /\ UNCHANGED <<sig, act, out, polls, inCatch, res>>
    /\ UNCHANGED <<controllerVars, stepVars>>
    /\ UNCHANGED <<domVars, serialVars, scrollVars, classVars, configVars, onDispose, actionVars>>

\* onBeforeTask threw: it is awaited outside the try block
onBeforeTaskThrows(t) ==
    /\ pc[t] = "onBeforeTask"
    /\ pc' = [pc EXCEPT ![t] = "rejected"]
    /\ UNCHANGED <<step, sig, act, out, polls, inCatch, res>>
    /\ UNCHANGED <<agentVars, controllerVars, stepVars>>
    /\ UNCHANGED <<domVars, serialVars, scrollVars, classVars, configVars, onDispose, actionVars>>

\* onBeforeStep returned: the abort check, then waitUntil(() => !this.paused)
onBeforeStepReturns(t) ==
    /\ pc[t] = "onBeforeStep"
    /\ IF aborted(abortController)
       THEN /\ Catch(t, AbortError)
            /\ UNCHANGED <<history, heap, paused, disposed, totalWaitTime, abortController>>
       ELSE /\ pc' = [pc EXCEPT ![t] = IF paused THEN "waitUntilStep" ELSE "think"]
            /\ polls' = [polls EXCEPT ![t] = 0]
            /\ UNCHANGED <<act, out, inCatch, res, agentVars>>
    /\ UNCHANGED <<step, sig, controllerVars, stepVars>>
    /\ UNCHANGED <<domVars, serialVars, scrollVars, classVars, configVars, onDispose, actionVars>>

\* A lifecycle hook awaited inside the try block threw
hookThrows(t) ==
    /\ pc[t] \in {"onBeforeStep", "onAfterStep"}
    /\ Catch(t, HookError)
    /\ UNCHANGED <<history, heap, paused, disposed, totalWaitTime, abortController>>
    /\ UNCHANGED <<step, sig, controllerVars, stepVars>>
    /\ UNCHANGED <<domVars, serialVars, scrollVars, classVars, configVars, onDispose, actionVars>>

\* #assembleUserPrompt with a #getBrowserState that reads the controller's
\* serialization without refreshing it
assembleUserPromptNoRefresh(t) ==
    /\ pc[t] = "think"
    /\ pc' = [pc EXCEPT ![t] = "prompt"]
    /\ toolRuns' = [toolRuns EXCEPT ![t] = 0]
    /\ dispatch' = [dispatch EXCEPT ![t] = NoDispatch]
    /\ refreshed' = [refreshed EXCEPT ![t] = 0]
    /\ UNCHANGED <<shown, llmCalls>>
    /\ UNCHANGED <<step, sig, act, out, polls, inCatch, res>>
    /\ UNCHANGED <<agentVars, controllerVars>>
    /\ UNCHANGED <<domVars, serialVars, scrollVars, classVars, configVars, onDispose, actionVars>>

\* #assembleUserPrompt up to #getBrowserState's await of updateTree, which
\* starts the extraction pass in the page
assembleUserPrompt(t) ==
    /\ pc[t] = "think"
    /\ pc' = [pc EXCEPT ![t] = "getFlatTree"]
    /\ toolRuns' = [toolRuns EXCEPT ![t] = 0]
    /\ dispatch' = [dispatch EXCEPT ![t] = NoDispatch]
    /\ refreshed' = [refreshed EXCEPT ![t] = 0]
    /\ UNCHANGED <<shown, llmCalls>>
    /\ UNCHANGED <<step, sig, act, out, polls, inCatch, res>>
    /\ UNCHANGED <<agentVars, controllerVars>>
    /\ UNCHANGED <<domVars, serialVars, scrollVars, classVars, configVars, onDispose, actionVars>>

\* getFlatTree's page.evaluate ran: the page's markers are those of a new pass
getFlatTree(t) ==
    /\ pc[t] = "getFlatTree"
    /\ marks' = marks + 1
    /\ pc' = [pc EXCEPT ![t] = "updateTree"]
    /\ UNCHANGED <<snapshots, selectorMap, simplifiedHTML>>
    /\ UNCHANGED <<step, sig, act, out, polls, inCatch, res>>
    /\ UNCHANGED <<agentVars, stepVars>>
    /\ UNCHANGED <<domVars, serialVars, scrollVars, classVars, configVars, onDispose, actionVars>>

\* page.evaluate rejected: the page closed or navigated, or processing an
\* element threw inside buildDomTree, which has no handler: the walk ends there,
\* after the cleanup and the stamping of the elements before it
getFlatTreeFails(t, error) ==
    /\ pc[t] = "getFlatTree"
    /\ marks' = IF error = ElementError THEN marks + 1 ELSE marks
    /\ Catch(t, error)
    /\ UNCHANGED <<history, heap, paused, disposed, totalWaitTime, abortController>>
    /\ UNCHANGED <<step, sig, snapshots, selectorMap, simplifiedHTML, stepVars>>
    /\ UNCHANGED <<domVars, serialVars, scrollVars, classVars, configVars, onDispose, actionVars>>

\* updateTree that replaces the serialization and keeps the old selector map
PublishSnapshotKeepMap ==
    /\ snapshots' = marks
    /\ simplifiedHTML' = marks
    /\ selectorMap' = selectorMap

\* PlaywrightController.updateTree after its await: the snapshot, its
\* serialization and both maps are replaced together
PublishSnapshot ==
    /\ snapshots' = marks
    /\ simplifiedHTML' = marks
    /\ selectorMap' = [gen |-> marks, cleared |-> FALSE]

updateTree(t) ==
    /\ pc[t] = "updateTree"
    /\ PublishSnapshot
    /\ refreshed' = [refreshed EXCEPT ![t] = marks]
    /\ pc' = [pc EXCEPT ![t] = "prompt"]
    /\ UNCHANGED marks
    /\ UNCHANGED <<step, sig, act, out, polls, inCatch, res>>
    /\ UNCHANGED <<agentVars, shown, toolRuns, dispatch, llmCalls>>
    /\ UNCHANGED <<domVars, serialVars, scrollVars, classVars, configVars, onDispose, actionVars>>

\* The rest of #getBrowserState and the call of this.#llm.invoke with the
\* prompts, the macro tool and the current controller's signal
llmInvoke(t) ==
    /\ pc[t] = "prompt"
    /\ shown' = [shown EXCEPT ![t] = simplifiedHTML]
    /\ sig' = [sig EXCEPT ![t] = [controller |-> abortController,
                                  aborted |-> aborted(abortController)]]
    /\ llmCalls' = [llmCalls EXCEPT ![t] = @ + 1]
    /\ pc' = [pc EXCEPT ![t] = "llm"]
    /\ UNCHANGED <<refreshed, toolRuns, dispatch>>
    /\ UNCHANGED <<step, act, out, polls, inCatch, res>>
    /\ UNCHANGED <<agentVars, controllerVars>>
    /\ UNCHANGED <<domVars, serialVars, scrollVars, classVars, configVars, onDispose, actionVars>>

\* What the LLM client can reject with: its own error when the model failed
\* after its retries, or, once the signal it was given is aborted, the
\* signal's reason
Rejections(t) ==
    {LLMError} \cup (IF signal[sig[t].controller] # "live"
                     THEN {signal[sig[t].controller]} ELSE {})

\* The LLM client rejected
llmFails(t, error) ==
    /\ pc[t] = "llm"
    /\ error \in Rejections(t)
    /\ Catch(t, error)
    /\ UNCHANGED <<history, heap, paused, disposed, totalWaitTime, abortController>>
    /\ UNCHANGED <<step, sig, controllerVars, stepVars>>
    /\ UNCHANGED <<domVars, serialVars, scrollVars, classVars, configVars, onDispose, actionVars>>

\* A lookup that finds every name
RegisteredAlways(toolName) == TRUE

\* tools.get(toolName) finds a tool
Registered(toolName) == toolName \in DOMAIN thisTools

\* What a tool finds as its executor starts.  An indexed tool resolves its index
\* at once (PlaywrightController.clickElement: this.selectorMap.get(index)); the
\* locator of the node it gets selects the element carrying the page's marker.
Resolve(toolName, index) ==
    [tool |-> toolName, gen |-> selectorMap.gen, marks |-> marks, newest |-> snapshots,
     found |-> /\ toolName \in IndexedTools
               /\ ~selectorMap.cleared /\ selectorMap.gen > 0
               /\ index >= 0 /\ index < ElementCount]

\* The macro tool once its waitUntil has resolved, run in the same turn of the
\* event loop: the tool is looked up by name and its executor started; an
\* indexed tool resolves its index as it starts
macroToolDispatch(t, a) ==
    IF ~Registered(a.name)
    THEN /\ Catch(t, ToolNotFound(a.name))
         /\ UNCHANGED <<toolRuns, dispatch>>
    ELSE /\ pc' = [pc EXCEPT ![t] = "tool"]
         /\ act' = [act EXCEPT ![t] = a]
         /\ polls' = [polls EXCEPT ![t] = 0]
         /\ toolRuns' = [toolRuns EXCEPT ![t] = @ + 1]
         /\ dispatch' = [dispatch EXCEPT ![t] = Resolve(a.name, a.input.index)]
         /\ UNCHANGED <<out, inCatch, res, signal>>

\* The LLM client got an action object and called the macro tool's execute:
\* the abort check, then waitUntil(() => !this.paused), which returns at once
\* when paused is false
macroToolExecute(t, a) ==
    /\ pc[t] = "llm"
    /\ IF aborted(abortController)
       THEN /\ Catch(t, AbortError)
            /\ UNCHANGED <<toolRuns, dispatch>>
       ELSE IF paused
       THEN /\ pc' = [pc EXCEPT ![t] = "waitUntilTool"]
            /\ act' = [act EXCEPT ![t] = a]
            /\ polls' = [polls EXCEPT ![t] = 0]
            /\ UNCHANGED <<out, inCatch, res, signal, toolRuns, dispatch>>
       ELSE macroToolDispatch(t, a)
    /\ UNCHANGED <<history, heap, paused, disposed, totalWaitTime, abortController>>
    /\ UNCHANGED <<step, sig, refreshed, shown, llmCalls, controllerVars>>
    /\ UNCHANGED <<domVars, serialVars, scrollVars, classVars, configVars, onDispose, actionVars>>

\* How a waitUntil that found paused false goes on: to the prompt assembly at
\* the start of a step, to the tool lookup inside the macro tool
Resume(t) ==
    IF pc[t] = "waitUntilStep"
    THEN /\ pc' = [pc EXCEPT ![t] = "think"]
         /\ polls' = [polls EXCEPT ![t] = 0]
         /\ UNCHANGED <<act, out, inCatch, res, signal, toolRuns, dispatch>>
    ELSE macroToolDispatch(t, act[t])

\* waitUntil without its timeout
waitUntilNoTimeout(t) ==
    /\ pc[t] \in {"waitUntilStep", "waitUntilTool"}
    /\ ~paused
    /\ Resume(t)
    /\ UNCHANGED <<history, heap, paused, disposed, totalWaitTime, abortController>>
    /\ UNCHANGED <<step, sig, refreshed, shown, llmCalls, controllerVars>>
    /\ UNCHANGED <<domVars, serialVars, scrollVars, classVars, configVars, onDispose, actionVars>>

\* waitUntil that resolves at its first tick whatever the condition
waitUntilUnchecked(t) ==
    /\ pc[t] \in {"waitUntilStep", "waitUntilTool"}
    /\ Resume(t)
    /\ UNCHANGED <<history, heap, paused, disposed, totalWaitTime, abortController>>
    /\ UNCHANGED <<step, sig, refreshed, shown, llmCalls, controllerVars>>
    /\ UNCHANGED <<domVars, serialVars, scrollVars, classVars, configVars, onDispose, actionVars>>

\* One tick of waitUntil's interval: resolve, reject on timeout, or keep polling
waitUntil(t) ==
    /\ pc[t] \in {"waitUntilStep", "waitUntilTool"}
    /\ IF ~paused
       THEN Resume(t)
       ELSE IF polls[t] >= PollLimit
       THEN /\ Catch(t, TimeoutError)
            /\ UNCHANGED <<toolRuns, dispatch>>
       ELSE /\ polls' = [polls EXCEPT ![t] = @ + 1]
            /\ UNCHANGED <<pc, act, out, inCatch, res, signal, toolRuns, dispatch>>
    /\ UNCHANGED <<history, heap, paused, disposed, totalWaitTime, abortController>>
    /\ UNCHANGED <<step, sig, refreshed, shown, llmCalls, controllerVars>>
    /\ UNCHANGED <<domVars, serialVars, scrollVars, classVars, configVars, onDispose, actionVars>>

\* What the `wait` branch of the macro tool adds to #totalWaitTime:
\* Math.round(toolInput.seconds + duration / 1000)
WaitIncrement(seconds, duration) == seconds + duration

\* The calls of clickElement a click tool can have made: the index resolved
\* as the tool started; the node's target and the click's outcome are the page's
ClickCalls(t) ==
    IF dispatch[t].found
    THEN {Call("clickElement", TRUE, target, clicked) :
              target \in Targets, clicked \in BOOLEAN}
    ELSE {Call("clickElement", FALSE, Absent, FALSE)}

\* What a tool's executor can do: the call of an element action it made, if
\* any, and the string it returns (for click_element_by_index result.message)
ToolReturns(t) ==
    CASE act[t].name = "done" ->
            {[call |-> NoActionResult.call, output |-> "Task completed"]}
      [] act[t].name = "wait" ->
            {[call |-> NoActionResult.call, output |-> "Waited"]}
      [] act[t].name = "click_element_by_index" ->
            {[call |-> c, output |-> clickElement(c.found, c.target, c.interacted).message] :
                c \in ClickCalls(t)}
      [] OTHER -> {[call |-> NoActionResult.call, output |-> "custom tool output"]}

\* The tool's executor returned: the wait accounting, then the 100 ms delay
toolReturns(t, call, duration) ==
    /\ pc[t] = "tool"
    /\ \E r \in ToolReturns(t) : r.call = call
    /\ actionResult' =
          IF call.method = "clickElement"
          THEN [call |-> call,
                result |-> clickElement(call.found, call.target, call.interacted)]
          ELSE NoActionResult
    /\ LET output == (CHOOSE r \in ToolReturns(t) : r.call = call).output IN
       IF act[t].name = "wait"
       THEN LET total == totalWaitTime + WaitIncrement(act[t].input.seconds, duration)
            IN  /\ totalWaitTime' = total
                /\ out' = [out EXCEPT ![t] =
                        IF total >= 3 THEN "Waited, do NOT wait any longer" ELSE output]
       ELSE /\ duration = 0
            /\ totalWaitTime' = 0
            /\ out' = [out EXCEPT ![t] = output]
    /\ pc' = [pc EXCEPT ![t] = "delay"]
    /\ UNCHANGED <<history, heap, paused, disposed, abortController, signal>>
    /\ UNCHANGED <<step, sig, act, polls, inCatch, res>>
    /\ UNCHANGED <<controllerVars, stepVars>>
    /\ UNCHANGED <<domVars, serialVars, scrollVars, classVars, configVars, onDispose>>

\* The executor of a custom tool threw (the default tools catch their errors)
toolThrows(t) ==
    /\ pc[t] = "tool"
    /\ act[t].name = "custom_tool"
    /\ Catch(t, ToolError)
    /\ UNCHANGED <<history, heap, paused, disposed, totalWaitTime, abortController>>
    /\ UNCHANGED <<step, sig, controllerVars, stepVars>>
    /\ UNCHANGED <<domVars, serialVars, scrollVars, classVars, configVars, onDispose, actionVars>>

\* The macro tool returned {input, output}; the LLM client resolved; execute
\* appends the step to this.history and awaits onAfterStep.  Of an entry the
\* model keeps the action's name and the call that pushed it.
historyPush(t) ==
    /\ pc[t] = "delay"
    /\ heap' = [heap EXCEPT ![history] =
            Append(@, [name |-> act[t].name, task |-> t])]
    /\ pc' = [pc EXCEPT ![t] = "onAfterStep"]
    /\ UNCHANGED <<history, paused, disposed, totalWaitTime, abortController, signal>>
    /\ UNCHANGED <<step, sig, act, out, polls, inCatch, res>>
    /\ UNCHANGED <<controllerVars, stepVars>>
    /\ UNCHANGED <<domVars, serialVars, scrollVars, classVars, configVars, onDispose, actionVars>>

\* StepEnd with a missing `success` read as true
StepEndDefaultTrue(stepCount, action) ==
    IF stepCount > MAX_STEPS
    THEN [via |-> "limit", success |-> FALSE, data |-> StepLimitText]
    ELSE IF action.name = "done"
    THEN [via |-> "done",
          success |-> (action.input.success # "false"),
          data |-> IF action.input.text \in {"", Absent}
                   THEN NoTextProvided ELSE action.input.text]
    ELSE [via |-> "next", success |-> FALSE, data |-> "none"]

\* StepEnd with the limit tested one step late
StepEndLate(stepCount, action) ==
    IF stepCount > MAX_STEPS + 1
    THEN [via |-> "limit", success |-> FALSE, data |-> StepLimitText]
    ELSE IF action.name = "done"
    THEN [via |-> "done",
          success |-> (action.input.success = "true"),
          data |-> IF action.input.text \in {"", Absent}
                   THEN NoTextProvided ELSE action.input.text]
    ELSE [via |-> "next", success |-> FALSE, data |-> "none"]

\* How a step ends once `step` is incremented: the step limit is tested
\* first, then the `done` action
StepEnd(stepCount, action) ==
    IF stepCount > MAX_STEPS
    THEN [via |-> "limit", success |-> FALSE, data |-> StepLimitText]
    ELSE IF action.name = "done"
    THEN [via |-> "done",
          success |-> (action.input.success = "true"),
          data |-> IF action.input.text \in {"", Absent}
                   THEN NoTextProvided ELSE action.input.text]
    ELSE [via |-> "next", success |-> FALSE, data |-> "none"]

\* onAfterStep returned: step++, then the two termination tests
onAfterStepReturns(t) ==
    /\ pc[t] = "onAfterStep"
    /\ step' = [step EXCEPT ![t] = @ + 1]
    /\ LET end == StepEnd(step[t] + 1, act[t])
       IN  IF end.via = "next"
           THEN /\ pc' = [pc EXCEPT ![t] = "onBeforeStep"]
                /\ act' = [act EXCEPT ![t] = NoAction]
                /\ UNCHANGED <<res, inCatch, signal>>
           ELSE /\ signal' = abort(signal, abortController, DefaultAbortReason)
                /\ res' = [res EXCEPT ![t] = [success |-> end.success, data |-> end.data,
                                              history |-> history, via |-> end.via]]
                /\ inCatch' = [inCatch EXCEPT ![t] = FALSE]
                /\ pc' = [pc EXCEPT ![t] = "onAfterTask"]
                /\ UNCHANGED act
    /\ out' = [out EXCEPT ![t] = "none"]
    \* (the model keeps an ActionResult until the step that got it is over)
    /\ actionResult' = NoActionResult
    /\ UNCHANGED <<history, heap, paused, disposed, totalWaitTime, abortController>>
    /\ UNCHANGED <<sig, polls, controllerVars, stepVars>>
    /\ UNCHANGED <<domVars, serialVars, scrollVars, classVars, configVars, onDispose>>

\* onAfterTask returned: execute returns the result
onAfterTaskReturns(t) ==
    /\ pc[t] = "onAfterTask"
    /\ pc' = [pc EXCEPT ![t] = "returned"]
    /\ UNCHANGED <<step, sig, act, out, polls, inCatch, res>>
    /\ UNCHANGED <<agentVars, controllerVars, stepVars>>
    /\ UNCHANGED <<domVars, serialVars, scrollVars, classVars, configVars, onDispose, actionVars>>

\* onAfterTask threw: inside the try block the catch block takes it, inside
\* the catch block execute rejects
onAfterTaskThrows(t) ==
    /\ pc[t] = "onAfterTask"
    /\ IF inCatch[t]
       THEN /\ pc' = [pc EXCEPT ![t] = "rejected"]
            /\ UNCHANGED <<act, out, polls, inCatch, res, signal>>
       ELSE Catch(t, HookError)
    /\ UNCHANGED <<history, heap, paused, disposed, totalWaitTime, abortController>>
    /\ UNCHANGED <<step, sig, controllerVars, stepVars>>
    /\ UNCHANGED <<domVars, serialVars, scrollVars, classVars, configVars, onDispose, actionVars>>

----------------------------------------------------------------------------
\* The caller's other operations on the agent

\* PlaywrightAgent.dispose(reason), with PlaywrightController.dispose and the
\* onDispose hook
dispose(reason) ==
    /\ disposed' = TRUE
    /\ selectorMap' = [selectorMap EXCEPT !.cleared = TRUE]
    /\ simplifiedHTML' = 0
    /\ history' = FreshArray(res)
    /\ heap' = Rebind(res, history')
    /\ signal' = abort(signal, abortController,
                       IF reason = Absent THEN DisposedReason ELSE reason)
    /\ onDispose' = reason
    /\ UNCHANGED <<paused, totalWaitTime, abortController, snapshots, marks>>
    /\ UNCHANGED <<taskVars, stepVars>>
    /\ UNCHANGED <<domVars, serialVars, scrollVars, classVars, configVars, actionVars>>

\* The caller sets or clears this.paused
setPaused(value) ==
    /\ paused # value
    /\ paused' = value
    /\ UNCHANGED <<history, heap, disposed, totalWaitTime, abortController, signal>>
    /\ UNCHANGED <<controllerVars, taskVars, stepVars>>
    /\ UNCHANGED <<domVars, serialVars, scrollVars, classVars, configVars, onDispose, actionVars>>

----------------------------------------------------------------------------
TaskStep(t) ==
    \/ onBeforeTaskReturns(t)
    \/ onBeforeTaskThrows(t)
    \/ onBeforeStepReturns(t)
    \/ hookThrows(t)
    \/ waitUntil(t)
    \/ assembleUserPrompt(t)
    \/ getFlatTree(t)
    \/ \E e \in {RefreshError, ElementError} : getFlatTreeFails(t, e)
    \/ updateTree(t)
    \/ llmInvoke(t)
    \/ \E e \in {LLMError, DisposedReason, UserReason, DefaultAbortReason} : llmFails(t, e)
    \/ \E a \in ActionObjects : macroToolExecute(t, a)
    \/ \E f \in BOOLEAN, g \in Targets, c \in BOOLEAN, d \in Durations :
          \/ toolReturns(t, Call("clickElement", f, g, c), d)
          \/ toolReturns(t, NoActionResult.call, d)
    \/ toolThrows(t)
    \/ historyPush(t)
    \/ onAfterStepReturns(t)
    \/ onAfterTaskReturns(t)
    \/ onAfterTaskThrows(t)

\* Spec: one execute() call on a new agent, with the caller's dispose() calls
\* and its writes of `paused` at any moment before, during and after it.
Next ==
    \/ execute(1)
    \/ \E t \in Tasks : TaskStep(t)
    \/ \E r \in {Absent, UserReason} : dispose(r)
    \/ \E v \in BOOLEAN : setPaused(v)

Spec == Init /\ [][Next]_vars

\* FairSpec: the event loop runs every continuation that is ready, so a call
\* that can take a step eventually takes one.  Nothing is assumed of the caller.
FairSpec == Spec /\ \A t \in Tasks : WF_vars(TaskStep(t))

\* The steps of a call whose hooks, page and tools do not fail and whose
\* model answers with a wait or with a successful done; the LLM client may
\* still reject, with an error of its own or because its signal is aborted
CallStep(t) ==
    \/ onBeforeTaskReturns(t)
    \/ onBeforeStepReturns(t)
    \/ assembleUserPrompt(t)
    \/ getFlatTree(t)
    \/ updateTree(t)
    \/ llmInvoke(t)
    \/ \E e \in {LLMError, DefaultAbortReason} : llmFails(t, e)
    \/ \E a \in {x \in ActionObjects : /\ x.keys = 1
                                        /\ \/ x.name = "wait"
                                           \/ x.name = "done" /\ x.input.success = "true"} :
          macroToolExecute(t, a)
    \/ \E d \in Durations : toolReturns(t, NoActionResult.call, d)
    \/ historyPush(t)
    \/ onAfterStepReturns(t)
    \/ onAfterTaskReturns(t)

\* SpecCalls: MaxTasks execute() calls on one agent, each made at any moment
\* after the one before it was made, while that one is running or after it
\* has ended; the caller neither disposes nor pauses.
NextCalls ==
    \/ \E t \in Tasks : (\A u \in 1..(t - 1) : pc[u] # "idle") /\ execute(t)
    \/ \E t \in Tasks : CallStep(t)

SpecCalls == Init /\ [][NextCalls]_vars

----------------------------------------------------------------------------
\* The constructor, on any configuration

\* new PlaywrightAgent(config): this.tools is built from the default tools and
\* the configuration
constructor ==
    /\ thisTools = NoTools
    /\ thisTools' = constructorTools(config)
    /\ UNCHANGED <<agentVars, controllerVars, taskVars, stepVars, domVars, serialVars, scrollVars, classVars, config, onDispose,
                 actionVars>>

\* The fields of an agent whose constructor has not run yet, for any configuration
InitTools ==
    /\ NewAgent
    /\ config \in Configs
    /\ thisTools = NoTools
    /\ viewportExpansion = VIEWPORT_EXPANSION
    /\ document = NewDocument([e \in Nodes |-> IF e = Body THEN 0 ELSE Body],
                              [e \in Nodes |-> NoMarker])
    /\ controller = NewController
    /\ swept = FALSE
    /\ repeated = FALSE
    /\ NoFilter
    /\ NoScroll
    /\ classified = NotClassified

\* SpecTools: the construction of an agent
SpecTools == InitTools /\ [][constructor]_vars

----------------------------------------------------------------------------
\* Part B.  Strings

WhiteSpace == {" ", "\t", "\n"}
Digits == <<"0", "1", "2", "3", "4", "5", "6", "7", "8", "9">>

RECURSIVE trimStart(_)
trimStart(s) == IF s # <<>> /\ Head(s) \in WhiteSpace THEN trimStart(Tail(s)) ELSE s

RECURSIVE trimEnd(_)
trimEnd(s) ==
    IF s # <<>> /\ s[Len(s)] \in WhiteSpace THEN trimEnd(SubSeq(s, 1, Len(s) - 1)) ELSE s

\* String.prototype.trim
trim(s) == trimEnd(trimStart(s))

\* String.prototype.split('\n')
RECURSIVE split(_)
split(s) ==
    LET breaks == {i \in 1..Len(s) : s[i] = "\n"}
    IN  IF breaks = {} THEN <<s>>
        ELSE LET i == CHOOSE b \in breaks : \A c \in breaks : b <= c
             IN  <<SubSeq(s, 1, i - 1)>> \o split(SubSeq(s, i + 1, Len(s)))

\* Array.prototype.join('\n')
RECURSIVE join(_)
join(parts) ==
    IF parts = <<>> THEN <<>>
    ELSE IF Len(parts) = 1 THEN parts[1]
    ELSE parts[1] \o <<"\n">> \o join(Tail(parts))

\* Number.prototype.toString
RECURSIVE toString(_)
toString(n) ==
    IF n < 10 THEN <<Digits[n + 1]>> ELSE toString(n \div 10) \o <<Digits[(n % 10) + 1]>>

\* parseInt(digits, 10)
RECURSIVE parseInt(_)
parseInt(ds) ==
    IF ds = <<>> THEN 0
    ELSE parseInt(SubSeq(ds, 1, Len(ds) - 1)) * 10
         + (CHOOSE d \in 0..9 : Digits[d + 1] = ds[Len(ds)])

\* '\t'.repeat(depth)
RECURSIVE repeat(_)
repeat(depth) == IF depth = 0 THEN <<>> ELSE <<"\t">> \o repeat(depth - 1)

\* The length of the run of digits of `line` that starts at position i
RECURSIVE digitRun(_, _)
digitRun(line, i) ==
    IF i <= Len(line) /\ (\E d \in 1..10 : Digits[d] = line[i])
    THEN 1 + digitRun(line, i + 1) ELSE 0

\* /^\[(\d+)\]<[^>]+>([^<]*)/.exec(line): the index it captures, Null for no match
regexExec(line) ==
    IF line = <<>> \/ Head(line) # "[" THEN Null
    ELSE LET close == 2 + digitRun(line, 2)
         IN  IF \/ close = 2
                \/ Len(line) < close + 1
                \/ line[close] # "]"
                \/ line[close + 1] # "<"
             THEN Null
             ELSE LET ends == {j \in (close + 2)..Len(line) : line[j] = ">"}
                  IN  IF ends = {} \/ (close + 2) \in ends THEN Null
                      ELSE parseInt(SubSeq(line, 2, close - 1))

----------------------------------------------------------------------------
\* Part B.  The extraction pass that getFlatTree evaluates in the page

skipTags == {"script", "style", "link", "meta", "noscript", "template"}
interactiveElements ==
    {"a", "button", "input", "select", "textarea", "details", "summary", "label"}
interactiveCursors == {"pointer", "text", "grab", "grabbing"}

interactiveRoles ==
    {"button", "link", "menuitem", "checkbox", "radio", "tab", "switch", "textbox",
     "combobox"}

\* The tests in the order of the source, each returning at once; "" is the
\* attribute that is not there and the cursor the style does not give
isInteractiveElement(el) ==
    IF el.tagName \in interactiveElements
    THEN IF el.disabled \/ el.readOnly THEN FALSE ELSE TRUE
    ELSE IF el.cursor # "" /\ el.cursor \in interactiveCursors THEN TRUE
    ELSE IF el.isContentEditable \/ el.contenteditable = "true" THEN TRUE
    ELSE IF el.role # "" /\ el.role \in interactiveRoles THEN TRUE
    ELSE IF el.onclickAttribute \/ el.onclick THEN TRUE
    ELSE FALSE

isElementVisible(el) == el.visible

isInViewport(el, expansion) == expansion = -1 \/ el.inside

isTopElement(el, expansion) == expansion = -1 \/ el.picked

getElementAttributes(el) == [title |-> el.title]

\* querySelectorAll('[data-pw-agent-index]').forEach(removeAttribute)
cleanupNone(markers) == markers

cleanup(markers) == [e \in DOMAIN markers |-> NoMarker]

\* buildDomTree's "Check visibility and interactivity" without the viewport test
nodeFlagsAnywhere(el, expansion) ==
    LET vis == isElementVisible(el)
        top == vis /\ isTopElement(el, expansion)
        inv == vis /\ isInViewport(el, expansion)
        interactive == top /\ isInteractiveElement(el)
    IN  [isVisible |-> vis, isTopElement |-> top, isInViewport |-> inv,
         isInteractive |-> interactive, indexed |-> interactive]

\* buildDomTree's "Check visibility and interactivity": the flags of nodeData
\* (FALSE where the source leaves a flag undefined) and whether it gets an index
nodeFlags(el, expansion) ==
    LET vis == isElementVisible(el)
        top == vis /\ isTopElement(el, expansion)
        inv == vis /\ isInViewport(el, expansion)
        interactive == top /\ isInteractiveElement(el)
    IN  [isVisible |-> vis, isTopElement |-> top, isInViewport |-> inv,
         isInteractive |-> interactive,
         indexed |-> interactive /\ (inv \/ expansion = -1)]

\* Stamping that does not advance highlightIndex
StampSame(g, e) == [g EXCEPT !.markers[e] = g.highlightIndex]

\* setAttribute('data-pw-agent-index', highlightIndex); highlightIndex++
Stamp(g, e) ==
    [g EXCEPT !.markers[e] = g.highlightIndex, !.highlightIndex = @ + 1]

TextNode(text) ==
    [type |-> "TEXT_NODE", text |-> text, tagName |-> "", attributes |-> [title |-> <<>>],
     children |-> <<>>, isVisible |-> TRUE, isTopElement |-> FALSE, isInViewport |-> FALSE,
     isInteractive |-> FALSE, highlightIndex |-> Undefined, element |-> 0]

RECURSIVE ascending(_)
ascending(S) ==
    IF S = {} THEN <<>>
    ELSE LET m == CHOOSE x \in S : \A y \in S : x <= y
         IN  <<m>> \o ascending(S \ {m})

\* element.childNodes without the text node: the child elements in document order
childElements(doc, e) == ascending({c \in DOMAIN doc.parent : doc.parent[c] = e})

\* buildDomTree(node) on element e.  g carries DOM_HASH_MAP, ID.current,
\* highlightIndex and the marker attributes of the page; the result is g
\* afterwards and the id returned (Null for a skipped element).  A node
\* remembers in `element` which element it was built from.
RECURSIVE buildDomTree(_, _, _, _)
RECURSIVE buildChildren(_, _, _, _)
buildChildren(doc, expansion, kids, g) ==
    IF kids = <<>> THEN [g |-> g, ids |-> <<>>]
    ELSE LET first == buildDomTree(doc, expansion, Head(kids), g)
             rest == buildChildren(doc, expansion, Tail(kids), first.g)
         IN  [g |-> rest.g,
              ids |-> (IF first.id # Null THEN <<first.id>> ELSE <<>>) \o rest.ids]

buildDomTree(doc, expansion, e, g) ==
    LET el == doc.elements[e]
    IN  IF el.tagName \in skipTags THEN [g |-> g, id |-> Null]
        ELSE LET flags == nodeFlags(el, expansion)
                 stamped == IF flags.indexed THEN Stamp(g, e) ELSE g
                 textContent == trim(el.text)
                 withText ==
                     IF textContent # <<>>
                     THEN [stamped EXCEPT !.map = (stamped.ID :> TextNode(textContent)) @@ @,
                                          !.ID = @ + 1]
                     ELSE stamped
                 kids == buildChildren(doc, expansion, childElements(doc, e), withText)
                 id == kids.g.ID
                 nodeData ==
                     [type |-> "ELEMENT_NODE", text |-> <<>>, tagName |-> el.tagName,
                      attributes |-> IF flags.indexed THEN getElementAttributes(el)
                                     ELSE [title |-> <<>>],
                      children |-> (IF textContent # <<>> THEN <<stamped.ID>> ELSE <<>>)
                                   \o kids.ids,
                      isVisible |-> flags.isVisible, isTopElement |-> flags.isTopElement,
                      isInViewport |-> flags.isInViewport,
                      isInteractive |-> flags.isInteractive,
                      highlightIndex |-> IF flags.indexed THEN g.highlightIndex
                                         ELSE Undefined,
                      element |-> e]
             IN  [g |-> [kids.g EXCEPT !.map = (id :> nodeData) @@ @, !.ID = id + 1],
                  id |-> id]

\* evaluateCode whose highlightIndex goes on from the markers it finds
evaluateCodeNoRestart(doc, expansion) ==
    LET walk == buildDomTree([doc EXCEPT !.markers = cleanup(@)], expansion, Body,
                             [map |-> <<>>, ID |-> 0,
                              highlightIndex |->
                                  Cardinality({e \in DOMAIN doc.markers :
                                                  doc.markers[e] # NoMarker}),
                              markers |-> cleanup(doc.markers)])
    IN  [flatTree |-> [rootId |-> walk.id, map |-> walk.g.map],
         markers |-> walk.g.markers]

\* The function getFlatTree evaluates in the page: cleanup, the walk from
\* document.body, and the markers it leaves on the page
evaluateCode(doc, expansion) ==
    LET walk == buildDomTree([doc EXCEPT !.markers = cleanup(@)], expansion, Body,
                             [map |-> <<>>, ID |-> 0, highlightIndex |-> 0,
                              markers |-> cleanup(doc.markers)])
    IN  [flatTree |-> [rootId |-> walk.id, map |-> walk.g.map],
         markers |-> walk.g.markers]

\* page.locator('[data-pw-agent-index="i"]'), resolved when an action uses it
locator(doc, i) == {e \in DOMAIN doc.markers : doc.markers[e] = i}

\* getSelectorMap: index -> the id of the node (Map.set keeps the last of a key,
\* and Object.keys lists the ids in ascending order)
getSelectorMap(flatTree) ==
    LET hits == {id \in DOMAIN flatTree.map :
                    /\ flatTree.map[id].isInteractive
                    /\ flatTree.map[id].highlightIndex # Undefined}
    IN  [i \in {flatTree.map[id].highlightIndex : id \in hits} |->
            CHOOSE id \in hits :
                /\ flatTree.map[id].highlightIndex = i
                /\ \A other \in hits :
                      flatTree.map[other].highlightIndex = i => other <= id]

----------------------------------------------------------------------------
\* Part B.  flatTreeToString and getElementTextMap

\* setParentReferences: the parent of a node, Null for the root
parentOf(map, id) ==
    IF \E p \in DOMAIN map : \E k \in 1..Len(map[p].children) : map[p].children[k] = id
    THEN CHOOSE p \in DOMAIN map : \E k \in 1..Len(map[p].children) : map[p].children[k] = id
    ELSE Null

\* The test on the parent alone
hasParentWithHighlightIndexDirect(map, id) ==
    LET current == parentOf(map, id)
    IN  /\ current # Null
        /\ map[current].type = "ELEMENT_NODE"
        /\ map[current].highlightIndex # Undefined

RECURSIVE hasParentWithHighlightIndex(_, _)
hasParentWithHighlightIndex(map, id) ==
    LET current == parentOf(map, id)
    IN  IF current = Null THEN FALSE
        ELSE IF map[current].type = "ELEMENT_NODE" /\ map[current].highlightIndex # Undefined
        THEN TRUE
        ELSE hasParentWithHighlightIndex(map, current)

\* collectText of getAllTextTillNextClickableElement: the text parts under
\* `current`, stopping at every other element that has an index
RECURSIVE collectText(_, _, _)
RECURSIVE collectTexts(_, _, _)
\* collectText without the test that stops at another indexed element
collectTextThrough(map, node, current) ==
    IF map[current].type = "TEXT_NODE" /\ map[current].text # <<>>
    THEN <<map[current].text>>
    ELSE IF map[current].type = "ELEMENT_NODE"
    THEN collectTexts(map, node, map[current].children)
    ELSE <<>>

collectTexts(map, node, kids) ==
    IF kids = <<>> THEN <<>>
    ELSE collectText(map, node, Head(kids)) \o collectTexts(map, node, Tail(kids))

collectText(map, node, current) ==
    IF /\ map[current].type = "ELEMENT_NODE"
       /\ current # node
       /\ map[current].highlightIndex # Undefined
    THEN <<>>
    ELSE IF map[current].type = "TEXT_NODE" /\ map[current].text # <<>>
    THEN <<map[current].text>>
    ELSE IF map[current].type = "ELEMENT_NODE"
    THEN collectTexts(map, node, map[current].children)
    ELSE <<>>

getAllTextTillNextClickableElement(map, node) == trim(join(collectText(map, node, node)))

capTextLength(text, maxLength) ==
    IF Len(text) > maxLength THEN SubSeq(text, 1, maxLength) \o <<".", ".", ".">> ELSE text

\* The characters of the tag names of the model
tagChars(tagName) ==
    CASE tagName = "a" -> <<"a">>
      [] tagName = "div" -> <<"d", "i", "v">>
      [] tagName = "body" -> <<"b", "o", "d", "y">>
      [] tagName = "button" -> <<"b", "u", "t", "t", "o", "n">>
      [] OTHER -> <<"s", "c", "r", "i", "p", "t">>

\* processNode's attributesHtmlStr, with `title` the one attribute of
\* includeAttrs an element of the model can have: kept when it is not blank
\* and differs from the element's text
attributesHtmlStr(node, text) ==
    LET value == trim(node.attributes.title)
    IN  IF value = <<>> \/ value = trim(text) THEN <<>>
        ELSE <<"t", "i", "t", "l", "e", "=">> \o capTextLength(value, 20)

\* processNode's line of an element that has an index (isNew is never set and
\* no element of the model is scrollable)
elementLine(map, id, depth) ==
    LET node == map[id]
        text == getAllTextTillNextClickableElement(map, id)
        attrs == attributesHtmlStr(node, text)
    IN  repeat(depth) \o <<"[">> \o toString(node.highlightIndex) \o <<"]", "<">>
        \o tagChars(node.tagName)
        \o (IF attrs # <<>> THEN <<" ">> \o attrs ELSE <<>>)
        \o (IF text # <<>>
            THEN (IF attrs = <<>> THEN <<" ">> ELSE <<>>) \o <<">">> \o trim(text)
            ELSE IF attrs = <<>> THEN <<" ">> ELSE <<>>)
        \o <<" ", "/", ">">>

\* processNode: the lines of the subtree of a node
RECURSIVE processNode(_, _, _)
RECURSIVE processNodes(_, _, _)
processNodes(map, kids, depth) ==
    IF kids = <<>> THEN <<>>
    ELSE processNode(map, Head(kids), depth) \o processNodes(map, Tail(kids), depth)

processNode(map, id, depth) ==
    IF map[id].type = "ELEMENT_NODE"
    THEN IF map[id].highlightIndex # Undefined
         THEN <<elementLine(map, id, depth)>> \o processNodes(map, map[id].children, depth + 1)
         ELSE processNodes(map, map[id].children, depth)
    ELSE IF hasParentWithHighlightIndex(map, id) THEN <<>>
    ELSE LET parent == parentOf(map, id)
         IN  IF /\ parent # Null
                /\ map[parent].type = "ELEMENT_NODE"
                /\ map[parent].isVisible
                /\ map[parent].isTopElement
             THEN <<repeat(depth) \o map[id].text>>
             ELSE <<>>

flatTreeToString(flatTree) ==
    IF flatTree.rootId \notin DOMAIN flatTree.map THEN <<>>
    ELSE join(processNode(flatTree.map, flatTree.rootId, 0))

\* The trimmed, non-empty lines of a serialization
RECURSIVE trimmedLines(_)
trimmedLines(lines) ==
    IF lines = <<>> THEN <<>>
    ELSE (IF trim(Head(lines)) # <<>> THEN <<trim(Head(lines))>> ELSE <<>>)
         \o trimmedLines(Tail(lines))

\* getElementTextMap: index -> the last line that matches with that index
getElementTextMap(html) ==
    LET lines == trimmedLines(split(html))
        hits == {k \in 1..Len(lines) : regexExec(lines[k]) # Null}
    IN  [i \in {regexExec(lines[k]) : k \in hits} |->
            lines[CHOOSE k \in hits :
                     /\ regexExec(lines[k]) = i
                     /\ \A other \in hits : regexExec(lines[other]) = i => other <= k]]

----------------------------------------------------------------------------
\* Part B.  The controller on a page

----------------------------------------------------------------------------
\* processNode's attribute filter (the lines that build attributesToInclude).
\* An object is the sequence of its entries [key, value] in insertion order.

DEFAULT_INCLUDE_ATTRIBUTES ==
    <<"title", "type", "checked", "name", "role", "value", "placeholder",
      "data-date-format", "alt", "aria-label", "aria-expanded", "data-state",
      "aria-checked", "id", "for", "target", "aria-haspopup", "aria-controls",
      "aria-owns">>

includeAttrs(include) == include \o DEFAULT_INCLUDE_ATTRIBUTES

Keys(obj) == {obj[i].key : i \in 1..Len(obj)}

\* obj[key], the empty string standing for undefined
Get(obj, key) ==
    IF key \in Keys(obj)
    THEN (CHOOSE e \in {obj[i] : i \in 1..Len(obj)} : e.key = key).value
    ELSE <<>>

\* obj[key] = value
Set(obj, key, value) ==
    IF key \in Keys(obj)
    THEN [i \in 1..Len(obj) |->
            IF obj[i].key = key THEN [key |-> key, value |-> value] ELSE obj[i]]
    ELSE Append(obj, [key |-> key, value |-> value])

\* delete obj[key] for the keys given
Delete(obj, keys) ==
    LET Stays(e) == e.key \notin keys
    IN  SelectSeq(obj, Stays)

\* The keys of Object.prototype that are longer than 5 characters and are
\* values of the model: `value in seenValues` is true of them
ObjectPrototype == {<<"v", "a", "l", "u", "e", "O", "f">>}

\* toLowerCase, on the capitals the model's values have
toLowerCase(str) ==
    [i \in 1..Len(str) |->
        CASE str[i] = "S" -> "s" [] str[i] = "O" -> "o" [] OTHER -> str[i]]

\* "Filter attributes": for (const key of includeAttrs) ...
RECURSIVE filterAttributes(_, _, _)
filterAttributes(attributes, keys, obj) ==
    IF keys = <<>> THEN obj
    ELSE LET key == Head(keys)
             value == IF key \in DOMAIN attributes THEN attributes[key] ELSE <<>>
         IN  filterAttributes(attributes, Tail(keys),
                              IF value # <<>> /\ trim(value) # <<>>
                              THEN Set(obj, key, trim(value)) ELSE obj)

\* "Remove duplicate values": the loop over orderedKeys that fills keysToRemove
RECURSIVE keysToRemove(_, _, _, _)
keysToRemove(orderedKeys, obj, seenValues, removed) ==
    IF orderedKeys = <<>> THEN removed
    ELSE LET key == Head(orderedKeys)
             value == Get(obj, key)
         IN  IF Len(value) > 5
             THEN IF value \in seenValues \cup ObjectPrototype
                  THEN keysToRemove(Tail(orderedKeys), obj, seenValues,
                                    removed \cup {key})
                  ELSE keysToRemove(Tail(orderedKeys), obj, seenValues \cup {value},
                                    removed)
             ELSE keysToRemove(Tail(orderedKeys), obj, seenValues, removed)

\* processNode, from `const attributesToInclude = {}` to the test of
\* Object.keys(attributesToInclude).length
attributeFilter(node, include) ==
    LET filtered == filterAttributes(node.attributes, includeAttrs(include), <<>>)
        Kept(key) == key \in Keys(filtered)
        orderedKeys == SelectSeq(includeAttrs(include), Kept)
        deduped == IF Len(orderedKeys) > 1
                   THEN Delete(filtered, keysToRemove(orderedKeys, filtered, {}, {}))
                   ELSE filtered
        noRole == IF Get(deduped, "role") = tagChars(node.tagName)
                  THEN Delete(deduped, {"role"}) ELSE deduped
        asText == {attr \in {"aria-label", "placeholder", "title"} :
                      /\ Get(noRole, attr) # <<>>
                      /\ trim(toLowerCase(Get(noRole, attr)))
                            = trim(toLowerCase(node.text))}
    IN  [deduped |-> [i \in 1..Len(deduped) |-> deduped[i].key],
         entries |-> Delete(noRole, asText)]

\* The values an attribute of the model can have (the empty string: none)
Submit == <<"s", "u", "b", "m", "i", "t">>
AttributeValues ==
    [title |-> {<<>>, <<" ">>, Submit, <<"S">> \o Tail(Submit), <<"s", "h", "o", "r", "t">>,
                <<"v", "a", "l", "u", "e", "O", "f">>},
     name |-> {<<>>, Submit, <<"s", "h", "o", "r", "t">>},
     label |-> {<<>>, Submit, <<" ">> \o Submit},
     role |-> {<<>>, <<"b", "u", "t", "t", "o", "n">>},
     custom |-> {<<>>, Submit}]

\* The indexed nodes the filter is run on
TreeNodes ==
    {[tagName |-> tag, text |-> text,
      attributes |-> ("title" :> t) @@ ("name" :> n) @@ ("aria-label" :> l)
                     @@ ("role" :> r) @@ ("data-x" :> c)] :
        tag \in {"a", "button"}, text \in {<<>>, Submit},
        t \in AttributeValues.title, n \in AttributeValues.name,
        l \in AttributeValues.label, r \in AttributeValues.role,
        c \in AttributeValues.custom}

\* The caller's attribute lists: none, a name of its own, a name of the default list
IncludeLists == {<<>>, <<"data-x">>, <<"title">>}

\* processNode reaches an indexed node and builds its attributesToInclude
processNodeAttributes ==
    /\ attributesToInclude = NotRun
    /\ attributesToInclude' = attributeFilter(treeNode, include_attributes)
    /\ UNCHANGED <<include_attributes, treeNode>>
    /\ UNCHANGED <<agentVars, controllerVars, taskVars, stepVars, domVars, configVars,
                 onDispose, actionVars, scrollVars, classVars>>

InitAttrs ==
    /\ NewAgent
    /\ config = AgentConfig
    /\ thisTools = constructorTools(AgentConfig)
    /\ viewportExpansion = VIEWPORT_EXPANSION
    /\ document = NewDocument([e \in Nodes |-> IF e = Body THEN 0 ELSE Body],
                              [e \in Nodes |-> NoMarker])
    /\ controller = NewController
    /\ swept = FALSE
    /\ repeated = FALSE
    /\ include_attributes \in IncludeLists
    /\ treeNode \in TreeNodes
    /\ attributesToInclude = NotRun
    /\ NoScroll
    /\ classified = NotClassified

\* SpecAttrs: the attribute filter on any node and attribute list
SpecAttrs == InitAttrs /\ [][processNodeAttributes]_vars

----------------------------------------------------------------------------
\* Part B.  The refresh

\* PlaywrightController.updateTree on the page as it has become since the
\* last pass: one element looks as l (any look of `looks`, its present one
\* included), the markers are where the last pass left them
updateTreeOnPage(looks) ==
    /\ \E e \in Nodes, l \in looks :
          /\ e = Body => l.tagName = "div"
          /\ LET page == [document EXCEPT
                            !.elements[e] = IF e = Body THEN [l EXCEPT !.tagName = "body"]
                                            ELSE l]
                 pass == evaluateCode(page, viewportExpansion)
                 html == flatTreeToString(pass.flatTree)
             IN  /\ document' = [page EXCEPT !.markers = pass.markers]
                 /\ controller' = [flatTree |-> pass.flatTree,
                                   simplifiedHTML |-> html,
                                   selectorMap |-> getSelectorMap(pass.flatTree),
                                   elementTextMap |-> getElementTextMap(html)]
                 /\ repeated' = /\ controller.flatTree.rootId # Null
                                /\ page = document
                 /\ swept' = /\ controller.flatTree.rootId # Null
                             /\ \E x \in Nodes : /\ document.markers[x] # NoMarker
                                                 /\ pass.markers[x] = NoMarker
    /\ UNCHANGED viewportExpansion
    /\ UNCHANGED <<agentVars, controllerVars, taskVars, stepVars, serialVars, scrollVars, classVars, configVars, onDispose,
                 actionVars>>

\* A new controller on a page that has just loaded: any tree, either setting of
\* the viewport expansion, and any marker attributes the page brings along
InitDom ==
    /\ NewAgent
    /\ config = AgentConfig
    /\ thisTools = constructorTools(AgentConfig)
    /\ viewportExpansion \in {VIEWPORT_EXPANSION, 0}
    /\ \E parent \in Shapes, markers \in [Nodes -> {NoMarker} \cup (0..(NodeCount - 1))] :
          document = NewDocument(parent, markers)
    /\ controller = NewController
    /\ swept = FALSE
    /\ repeated = FALSE
    /\ NoFilter
    /\ NoScroll
    /\ classified = NotClassified

\* A new controller with the default configuration on a page without markers
InitHtml ==
    /\ NewAgent
    /\ config = AgentConfig
    /\ thisTools = constructorTools(AgentConfig)
    /\ viewportExpansion = VIEWPORT_EXPANSION
    /\ \E parent \in Shapes : document = NewDocument(parent, [e \in Nodes |-> NoMarker])
    /\ controller = NewController
    /\ swept = FALSE
    /\ repeated = FALSE
    /\ NoFilter
    /\ NoScroll
    /\ classified = NotClassified

NextDom == updateTreeOnPage(DomLooks)

NextHtml == updateTreeOnPage(HtmlLooks)

\* SpecDom: refreshes of a page whose elements change what the pass tests
SpecDom == InitDom /\ [][NextDom]_vars

\* SpecHtml: refreshes of a page whose elements change their text and title
SpecHtml == InitHtml /\ [][NextHtml]_vars

----------------------------------------------------------------------------
\* isInteractiveElement on one element

\* What the function reads of an element: a tag of the interactive set or a
\* div; a cursor of the interactive set, another or none; the contenteditable
\* attribute and the property (true as well where an ancestor is editable); a
\* role of the set, another or none
Elements ==
    [tagName : {"a", "input", "div"}, disabled : BOOLEAN, readOnly : BOOLEAN,
     cursor : {"", "auto", "pointer"}, isContentEditable : BOOLEAN,
     contenteditable : {"", "true"}, role : {"", "button", "banner"},
     onclickAttribute : BOOLEAN, onclick : BOOLEAN]

\* const interactive = isInteractiveElement(element)
classify ==
    /\ ~classified.called
    /\ classified' = [classified EXCEPT !.called = TRUE,
                                        !.isInteractive = isInteractiveElement(classified.element)]
    /\ UNCHANGED <<agentVars, controllerVars, taskVars, stepVars, domVars, configVars,
                 onDispose, actionVars, serialVars, scrollVars>>

InitInteractive ==
    /\ NewAgent
    /\ config = AgentConfig
    /\ thisTools = constructorTools(AgentConfig)
    /\ viewportExpansion = VIEWPORT_EXPANSION
    /\ document = NewDocument([e \in Nodes |-> IF e = Body THEN 0 ELSE Body],
                              [e \in Nodes |-> NoMarker])
    /\ controller = NewController
    /\ swept = FALSE
    /\ repeated = FALSE
    /\ NoFilter
    /\ NoScroll
    /\ \E e \in Elements : classified = [NotClassified EXCEPT !.element = e]

\* SpecInteractive: the classification of every element of Elements
SpecInteractive == InitInteractive /\ [][classify]_vars

----------------------------------------------------------------------------
\* PlaywrightController.scroll and scrollHorizontally

\* Lengths are whole pixels, so a container has scrolled by more than 0.5 px
\* exactly when its position has changed.
\* this.page.viewportSize()?.height ?? 800
viewportHeight == 2

\* How far the window and a scrollable container can scroll, either way
ScrollRange == 2

\* The inputs the tools' schemas let through: num_pages >= 0, an integer
\* pixels >= 0 that the scroll tool may leave out, an optional index >= 0
\* (Null where the input has none)
PageCounts == {0, 1}
PixelCounts == {0, 1}
Indexes == {0, 1}
ScrollOptions ==
    [down : BOOLEAN, numPages : PageCounts, pixels : PixelCounts \cup {Null},
     index : Indexes \cup {Null}]
ScrollHorizontallyOptions ==
    [right : BOOLEAN, pixels : PixelCounts, index : Indexes \cup {Null}]

\* Whether and where an element.evaluate of a call throws
ElementThrows == {"no", "before", "after"}

\* A scroll position after the browser has kept it within its range
Clamp(position, range) ==
    IF position < 0 THEN 0 ELSE IF position > range THEN range ELSE position

\* const scrollAmount = pixels ?? numPages * (down ? 1 : -1) * viewportHeight
scrollAmount(options) ==
    IF options.pixels # Null THEN options.pixels
    ELSE options.numPages * (IF options.down THEN 1 ELSE -1) * viewportHeight

\* const dx = right ? scrollAmount : -scrollAmount
dx(right, amount) == IF right THEN amount ELSE 0 - amount

\* index !== undefined ? this.selectorMap.get(index) : null, then
\* element?.locator ?? null
element(index) == index # Null /\ index \in DOMAIN controller.selectorMap

\* scrollVertically and scrollHorizontally: the container first when there is
\* one, the window when the container did not move or evaluating on it
\* threw; elField and windowField are the fields the call scrolls.  Gives the
\* new scrollContainer and window, what was scrolled and the message, or
\* by = "threw" when page.evaluate rejected.  The three element.evaluate calls
\* are separate round trips to the page: one of the first two throws
\* ("before": the container has not moved) or the last one does ("after": the
\* assignment has been made), as when the scroll makes the page replace the
\* element.
scrollBy(elField, windowField, amount, hasElement, elementThrows, pageThrows, containerText, pageText) ==
    LET after == Clamp(scrollContainer[elField] + amount, scrollContainer.range)
        actualScroll == after - scrollContainer[elField]
        assigned == IF hasElement /\ elementThrows # "before"
                    THEN [scrollContainer EXCEPT ![elField] = after]
                    ELSE scrollContainer
    IN  IF hasElement /\ elementThrows = "no" /\ actualScroll # 0
        THEN [scrollContainer |-> assigned, window |-> window,
              by |-> "container", message |-> <<containerText, actualScroll>>]
        ELSE IF pageThrows
        THEN [scrollContainer |-> assigned, window |-> window, by |-> "threw", message |-> <<>>]
        ELSE [scrollContainer |-> assigned,
              window |-> [window EXCEPT ![windowField] = Clamp(@ + amount, ScrollRange)],
              by |-> "page", message |-> <<pageText, amount>>]

\* The ActionResult of the controller's try/catch around the helper
scrollResult(moved, failure) ==
    IF moved.by = "threw" THEN [success |-> FALSE, message |-> <<failure>>]
    ELSE [success |-> TRUE, message |-> moved.message]

\* PlaywrightController.scroll(options)
scroll(options, elementThrows, pageThrows) ==
    /\ LET amount == scrollAmount(options)
           moved == scrollBy("scrollTop", "scrollY", amount, element(options.index),
                             elementThrows, pageThrows,
                             "Scrolled container by", "Scrolled page by")
       IN  /\ scrollContainer' = moved.scrollContainer
           /\ window' = moved.window
           /\ scrolled' = [method |-> "scroll", options |-> options, amount |-> amount,
                           by |-> moved.by,
                           result |-> scrollResult(moved, "Failed to scroll")]
    /\ UNCHANGED <<agentVars, controllerVars, taskVars, stepVars, domVars, configVars,
                 onDispose, actionVars, serialVars, classVars>>

\* PlaywrightController.scrollHorizontally(options)
scrollHorizontally(options, elementThrows, pageThrows) ==
    /\ LET amount == dx(options.right, options.pixels)
           moved == scrollBy("scrollLeft", "scrollX", amount, element(options.index),
                             elementThrows, pageThrows,
                             "Scrolled container horizontally by",
                             "Scrolled page horizontally by")
       IN  /\ scrollContainer' = moved.scrollContainer
           /\ window' = moved.window
           /\ scrolled' = [method |-> "scrollHorizontally", options |-> options,
                           amount |-> amount, by |-> moved.by,
                           result |-> scrollResult(moved, "Failed to scroll horizontally")]
    /\ UNCHANGED <<agentVars, controllerVars, taskVars, stepVars, domVars, configVars,
                 onDispose, actionVars, serialVars, classVars>>

\* A controller after its first updateTree on a page with one element that is
\* a link or a div, and a scroll container that can scroll or cannot
InitScroll ==
    /\ NewAgent
    /\ config = AgentConfig
    /\ thisTools = constructorTools(AgentConfig)
    /\ viewportExpansion = VIEWPORT_EXPANSION
    /\ \E tagName \in {"a", "div"} :
          LET blank == NewDocument([e \in Nodes |-> IF e = Body THEN 0 ELSE Body],
                                   [e \in Nodes |-> NoMarker])
              page == [blank EXCEPT !.elements[NodeCount].tagName = tagName]
              pass == evaluateCode(page, viewportExpansion)
              html == flatTreeToString(pass.flatTree)
          IN  /\ document = [page EXCEPT !.markers = pass.markers]
              /\ controller = [flatTree |-> pass.flatTree,
                               simplifiedHTML |-> html,
                               selectorMap |-> getSelectorMap(pass.flatTree),
                               elementTextMap |-> getElementTextMap(html)]
    /\ swept = FALSE
    /\ repeated = FALSE
    /\ NoFilter
    /\ window = [scrollX |-> 0, scrollY |-> 0]
    /\ scrollContainer \in [scrollLeft : {0}, scrollTop : {0}, range : {0, ScrollRange}]
    /\ scrolled = NoScrollCall
    /\ classified = NotClassified

NextScroll ==
    \/ \E options \in ScrollOptions, elementThrows \in ElementThrows, pageThrows \in BOOLEAN :
          scroll(options, elementThrows, pageThrows)
    \/ \E options \in ScrollHorizontallyOptions, elementThrows \in ElementThrows,
          pageThrows \in BOOLEAN :
          scrollHorizontally(options, elementThrows, pageThrows)

\* SpecScroll: scroll calls, one after the other, on one page
SpecScroll == InitScroll /\ [][NextScroll]_vars

----------------------------------------------------------------------------
\* Claims about the agent loop

Entries(a) == {heap[a][i] : i \in 1..Len(heap[a])}
NoDone(a) == \A e \in Entries(a) : e.name # "done"
Settled(t) == pc[t] \in {"returned", "rejected"}

\* No dispose() took effect on the controller of the call before the call
\* itself ended it (#onDone aborts without a reason)
NotAbortedByCaller == signal[abortController] \in {"live", DefaultAbortReason}

\* C1: this.history never holds more than MAX_STEPS+1 entries; no LLM call is
\* in flight once MAX_STEPS+1 entries are recorded; and a call that returns
\* without `done` ever chosen, without a failure and without an abort returns
\* {success: false, data: "Step count exceeded maximum limit"} with a history
\* of exactly MAX_STEPS+1 entries.
StepBudget ==
    /\ Len(heap[history]) <= MAX_STEPS + 1
    /\ \A t \in Tasks :
        /\ pc[t] = "llm" => Len(heap[history]) <= MAX_STEPS /\ llmCalls[t] <= MAX_STEPS + 1
        /\ (/\ pc[t] = "returned"
            /\ res[t].via # "catch"
            /\ NoDone(res[t].history)
            /\ NotAbortedByCaller)
           => /\ res[t].success = FALSE
              /\ res[t].data = StepLimitText
              /\ Len(heap[res[t].history]) = MAX_STEPS + 1

StepBudgetWitness ==
    /\ pc[1] = "returned"
    /\ res[1].via = "limit"
    /\ NoDone(res[1].history)
    /\ NotAbortedByCaller
    /\ Len(heap[res[1].history]) = MAX_STEPS + 1
    /\ llmCalls[1] = MAX_STEPS + 1

\* C2 as stated: once the step whose action is `done` has ended (act keeps the
\* step's action until execute returns), the result is
\* {success: input.success, false when absent; data: input.text}, whatever
\* the step and the text.
DoneEndsWithInput ==
    \A t \in Tasks :
        (/\ pc[t] \in {"onAfterTask", "returned"}
         /\ res[t].via # "catch"
         /\ act[t].name = "done")
        => /\ res[t].success = (act[t].input.success = "true")
           /\ res[t].data = act[t].input.text

\* C2 as amended: when the action of one of the first MAX_STEPS steps is `done`
\* and onAfterStep returns, the result is success = input.success (false when
\* absent) and data = input.text, or "no text provided" when the text is empty
\* or missing; and no LLM call is in flight while this.history holds a `done`.
DoneEnds ==
    \A t \in Tasks :
        /\ (/\ pc[t] \in {"onAfterTask", "returned"}
            /\ res[t].via # "catch"
            /\ act[t].name = "done"
            /\ step[t] <= MAX_STEPS)
           => LET input == act[t].input
              IN  /\ res[t].via = "done"
                  /\ res[t].success = (input.success = "true")
                  /\ res[t].data = IF input.text \in {"", Absent}
                                   THEN NoTextProvided ELSE input.text
        /\ pc[t] \in {"think", "getFlatTree", "updateTree", "prompt", "llm"}
           => NoDone(history)

DoneEndsWitness ==
    /\ pc[1] = "returned"
    /\ res[1].via = "done"
    /\ step[1] = MAX_STEPS
    /\ act[1].name = "done"
    /\ act[1].input.success = Absent
    /\ res[1].data = "ok"

\* C3: a call never completes more than MAX_STEPS+1 steps, and every call that
\* is running eventually settles: execute returns its result, or rejects
\* because a hook threw outside the protection of the try block.
Termination ==
    /\ [](\A t \in Tasks : step[t] <= MAX_STEPS + 1)
    /\ \A t \in Tasks : Running(t) ~> Settled(t)

TerminationWitness ==
    /\ pc[1] = "returned"
    /\ step[1] = MAX_STEPS + 1
    /\ paused

\* C4: every entry of a history names a registered tool; at most one tool
\* executor starts after a prompt assembly, and when the loop comes round to
\* the next prompt assembly, and when a step is recorded, exactly one has.
SingleActionStep ==
    /\ \A a \in ArrayIds : \A e \in Entries(a) : e.name \in DOMAIN thisTools
    /\ \A t \in Tasks :
        /\ toolRuns[t] <= 1
        /\ pc[t] = "onAfterStep" => toolRuns[t] = 1
        /\ (pc[t] \in {"onBeforeStep", "waitUntilStep", "think"} /\ step[t] > 0)
           => toolRuns[t] = 1

SingleActionStepWitness ==
    /\ pc[1] = "think"
    /\ step[1] = MAX_STEPS
    /\ toolRuns[1] = 1
    /\ Len(heap[history]) = MAX_STEPS

\* C5: while a step's tool runs, the step's refresh has completed, its
\* serialization is the one in the step's prompt, and no extraction pass has
\* started on the page since the tool started.
RefreshBeforeTool ==
    \A t \in Tasks :
        pc[t] \in {"tool", "delay"}
        => /\ refreshed[t] > 0
           /\ shown[t] = refreshed[t]
           /\ dispatch[t].newest = refreshed[t]
           /\ marks = dispatch[t].marks
           /\ \A u \in Tasks : pc[u] \notin {"getFlatTree", "updateTree"}

RefreshBeforeToolWitness ==
    /\ pc[1] = "tool"
    /\ step[1] = 1
    /\ refreshed[1] = 2

\* C6: an indexed action resolves its index in the selector map of the newest
\* completed refresh, which is the snapshot serialized in the step's prompt,
\* and the element its handle selects carries a marker of that same pass.
NoStaleDispatch ==
    \A t \in Tasks :
        dispatch[t].tool \in IndexedTools
        => /\ dispatch[t].gen = dispatch[t].newest
           /\ dispatch[t].gen = shown[t]
           /\ dispatch[t].found => dispatch[t].marks = dispatch[t].gen

NoStaleDispatchWitness ==
    /\ pc[1] = "tool"
    /\ dispatch[1].tool = "click_element_by_index"
    /\ dispatch[1].found
    /\ dispatch[1].gen = 2

----------------------------------------------------------------------------
\* Claims about the snapshot

\* A refresh has completed on the controller
passDone == controller.flatTree.rootId # Null

DomMap == controller.flatTree.map
ElementNodes == {id \in DOMAIN DomMap : DomMap[id].type = "ELEMENT_NODE"}
IndexedNodes == {id \in ElementNodes : DomMap[id].highlightIndex # Undefined}

\* The element a node of the newest snapshot was built from
ElementOf(id) == document.elements[DomMap[id].element]

\* topmost as the extraction defines it: the point pick at the centre gives the
\* element or a descendant of it, or the viewport expansion is -1
Topmost(el) == viewportExpansion = -1 \/ el.picked

\* C7: in every snapshot the indices of the N indexed nodes are 0..N-1, each
\* on one node, and the SelectorMap has the N keys 0..N-1, key i leading to
\* the node indexed i.
ContiguousIndices ==
    passDone =>
        LET N == Cardinality(IndexedNodes)
        IN  /\ {DomMap[id].highlightIndex : id \in IndexedNodes} = 0..(N - 1)
            /\ \A a, b \in IndexedNodes :
                  DomMap[a].highlightIndex = DomMap[b].highlightIndex => a = b
            /\ DOMAIN controller.selectorMap = 0..(N - 1)
            /\ Cardinality(DOMAIN controller.selectorMap) = N
            /\ \A i \in DOMAIN controller.selectorMap :
                  DomMap[controller.selectorMap[i]].highlightIndex = i

\* Two indexed elements, one inside the other: the outer one has the smaller
\* index and the greater node id
ContiguousIndicesWitness ==
    /\ passDone
    /\ Cardinality(IndexedNodes) = 2
    /\ \E e \in Nodes : /\ document.parent[e] = Body
                        /\ document.markers[Body] = 0
                        /\ document.markers[e] = 1
    /\ controller.selectorMap[0] > controller.selectorMap[1]

\* C8: an element of the snapshot has an index iff it is a recognized
\* interactive element, visible, topmost, and in the viewport or the expansion
\* is -1; and every node of the SelectorMap carries the flags visible, topmost
\* and (in viewport or expansion -1), in agreement with the page.
IndexedIffEligible ==
    passDone =>
        /\ \A id \in ElementNodes :
              (DomMap[id].highlightIndex # Undefined)
              <=> /\ isInteractiveElement(ElementOf(id))
                  /\ ElementOf(id).visible
                  /\ Topmost(ElementOf(id))
                  /\ (ElementOf(id).inside \/ viewportExpansion = -1)
        /\ \A i \in DOMAIN controller.selectorMap :
              LET id == controller.selectorMap[i]
              IN  /\ DomMap[id].isVisible /\ ElementOf(id).visible
                  /\ DomMap[id].isTopElement /\ Topmost(ElementOf(id))
                  /\ (DomMap[id].isInViewport \/ viewportExpansion = -1)
                  /\ (ElementOf(id).inside \/ viewportExpansion = -1)

\* With expansion 0: one element has an index, and a link that is enabled,
\* visible and point-picked but lies outside the viewport has none
IndexedIffEligibleWitness ==
    /\ passDone
    /\ viewportExpansion = 0
    /\ \E a, b \in ElementNodes :
          /\ DomMap[a].highlightIndex # Undefined
          /\ DomMap[b].highlightIndex = Undefined
          /\ ElementOf(b).tagName = "a" /\ ~ElementOf(b).disabled
          /\ ElementOf(b).visible /\ ElementOf(b).picked /\ ~ElementOf(b).inside

\* C9: once a refresh has completed, each index of the SelectorMap is the
\* marker of exactly one element, the one its node was built from, and every
\* marker on the page is an index of the SelectorMap.
MarkerCorrespondence ==
    passDone =>
        /\ \A i \in DOMAIN controller.selectorMap :
              locator(document, i) = {DomMap[controller.selectorMap[i]].element}
        /\ \A e \in Nodes :
              document.markers[e] # NoMarker
              => document.markers[e] \in DOMAIN controller.selectorMap

\* The newest pass took away the marker an earlier pass had stamped on an
\* element that has no index any more, and stamped others
MarkerCorrespondenceWitness ==
    /\ passDone
    /\ swept
    /\ controller.selectorMap # <<>>
    /\ \E e \in Nodes : document.markers[e] = NoMarker

\* The index of a line that begins with `[i]`, Null for any other line
lineIndex(line) ==
    IF /\ line # <<>> /\ Head(line) = "["
       /\ digitRun(line, 2) > 0
       /\ Len(line) >= 2 + digitRun(line, 2)
       /\ line[2 + digitRun(line, 2)] = "]"
    THEN parseInt(SubSeq(line, 2, 1 + digitRun(line, 2)))
    ELSE Null

\* C10 as stated: every line of the serialization that begins with `[i]` has
\* its i in the SelectorMap, every index of the SelectorMap has one such line,
\* and the ElementTextMap has the keys of the SelectorMap.
IndexLinesMatchSelectorMap ==
    passDone =>
        LET lines == trimmedLines(split(controller.simplifiedHTML))
        IN  /\ \A k \in 1..Len(lines) :
                  lineIndex(lines[k]) # Null
                  => lineIndex(lines[k]) \in DOMAIN controller.selectorMap
            /\ \A i \in DOMAIN controller.selectorMap :
                  Cardinality({k \in 1..Len(lines) : lineIndex(lines[k]) = i}) = 1
            /\ DOMAIN controller.elementTextMap = DOMAIN controller.selectorMap

\* C25: a refresh of a page that is as the refresh before it left it gives
\* the same serialized HTML, the same flat tree with the same indices, the
\* same keys of the SelectorMap and of the ElementTextMap, and leaves the
\* same markers on the page.
RefreshIdempotent ==
    [][(/\ passDone
        /\ document'.parent = document.parent
        /\ document'.elements = document.elements)
       => /\ controller'.simplifiedHTML = controller.simplifiedHTML
          /\ controller'.flatTree = controller.flatTree
          /\ DOMAIN controller'.selectorMap = DOMAIN controller.selectorMap
          /\ DOMAIN controller'.elementTextMap = DOMAIN controller.elementTextMap
          /\ document'.markers = document.markers]_vars

\* A page with two indexed elements, one inside the other, each with a text,
\* has been refreshed twice
RefreshIdempotentWitness ==
    /\ repeated
    /\ Cardinality(IndexedNodes) = 2
    /\ \E e \in Nodes : document.markers[e] = 1 /\ document.elements[e].text # <<>>

\* The trimmed value of attribute key of the node, and the keys of the
\* allow-list that have one
ValueOf(key) ==
    IF key \in DOMAIN treeNode.attributes THEN trim(treeNode.attributes[key]) ELSE <<>>

AllowListed ==
    {key \in {includeAttrs(include_attributes)[i] :
                 i \in 1..Len(includeAttrs(include_attributes))} : ValueOf(key) # <<>>}

\* The first place of a key in the allow-list
PlaceOf(key) ==
    CHOOSE i \in 1..Len(includeAttrs(include_attributes)) :
        /\ includeAttrs(include_attributes)[i] = key
        /\ \A j \in 1..(i - 1) : includeAttrs(include_attributes)[j] # key

\* C26 as stated: no two attributes of the serialized element have the same
\* value of more than 5 characters, and of the allow-listed attributes that
\* carry one such value the removal of duplicates keeps exactly the one that
\* comes first in the allow-list.
AttributeDedup ==
    attributesToInclude # NotRun
    => /\ \A i, j \in 1..Len(attributesToInclude.entries) :
             (i # j /\ Len(attributesToInclude.entries[i].value) > 5)
             => attributesToInclude.entries[i].value # attributesToInclude.entries[j].value
       /\ \A key \in AllowListed :
             Len(ValueOf(key)) > 5
             => LET group == {g \in AllowListed : ValueOf(g) = ValueOf(key)}
                    first == CHOOSE g \in group : \A h \in group : PlaceOf(g) <= PlaceOf(h)
                IN  {g \in group :
                        \E i \in 1..Len(attributesToInclude.deduped) :
                            attributesToInclude.deduped[i] = g} = {first}

----------------------------------------------------------------------------
\* Claims about abort, dispose and pause

\* The reasons dispose() aborts with
DisposeReasons == {DisposedReason, UserReason}

\* dispose(reason) arrived while the LLM call of task t was in flight: the
\* signal the call was given was live as the call was made and now carries r
DisposedMidCall(t, r) ==
    /\ pc[t] = "llm"
    /\ ~sig[t].aborted
    /\ signal[sig[t].controller] = r

\* C12 as stated: when dispose() arrives while the LLM call of a task is in
\* flight, execute eventually returns {success: false, data: the reason
\* dispose aborted with}.
DisposeMidCallGivesReason ==
    \A t \in Tasks : \A r \in DisposeReasons :
        DisposedMidCall(t, r)
        ~> (pc[t] = "returned" /\ res[t].success = FALSE /\ res[t].data = r)

\* The abort check at the start of a step, or the one of the macro tool,
\* finds the signal aborted
AbortObserved(t) ==
    /\ aborted(abortController)
    /\ \/ onBeforeStepReturns(t)
       \/ \E a \in ActionObjects : macroToolExecute(t, a)

\* C13 as stated: when a cooperative check observes the abort, the result
\* built is {success: false, data: the reason the signal was aborted with}.
AbortGivesReason ==
    [][\A t \in Tasks :
          AbortObserved(t)
          => /\ res'[t].success = FALSE
             /\ res'[t].data = signal[abortController]]_vars

\* C14 as stated: a call of execute() made once dispose() has been called
\* makes no LLM call, no refresh and starts no tool, and a result it returns
\* has success = false.
DisposedAgentAborts ==
    \A t \in Tasks :
        []((disposed /\ pc[t] = "idle")
           => [](/\ llmCalls[t] = 0
                 /\ pc[t] \notin {"getFlatTree", "updateTree", "tool"}
                 /\ pc[t] = "returned" => res[t].success = FALSE))

\* C15 as stated: a call of dispose() on an agent that is disposed already
\* changes nothing of the agent and the controller, aborts nothing and does
\* not call the onDispose hook again.
DisposeIdempotent ==
    [][\A r \in {Absent, UserReason} :
          (disposed /\ dispose(r))
          => /\ heap'[history'] = heap[history]
             /\ UNCHANGED <<paused, disposed, totalWaitTime, abortController, signal>>
             /\ UNCHANGED <<controllerVars, onDispose>>]_vars

\* The array a call appends to, or the one its result holds once it is built
HistoryOf(t) == IF pc[t] \in {"onAfterTask", "returned"} THEN res[t].history ELSE history

\* C16 as stated: from the start of its first step to its return, the history
\* of a call holds one entry for each step it has completed (and the entry of
\* the step whose onAfterStep is pending or failed), all of them its own, so
\* it is empty at the first step and no entry is ever removed.
HistoryAppendOnly ==
    \A t \in Tasks :
        (Running(t) /\ pc[t] # "onBeforeTask") \/ pc[t] = "returned"
        => /\ Len(heap[HistoryOf(t)]) \in {step[t], step[t] + 1}
           /\ \A e \in Entries(HistoryOf(t)) : e.task = t

\* The call is blocked in waitUntil(() => !this.paused)
Blocked(t) == pc[t] \in {"waitUntilStep", "waitUntilTool"}

\* C17: a prompt assembly begins and a tool executor starts only in a step
\* that finds paused false; a write of paused changes nothing of a call, and
\* a tool that is running returns whatever paused is; a call that leaves its
\* wait with paused false goes on where it blocked (to the prompt assembly or
\* to the tool lookup); and if paused stays false from some moment on, the
\* call does not stay blocked.
PauseBlocks ==
    /\ [][\A t \in Tasks :
            /\ (pc'[t] = "think" /\ pc[t] # "think") => ~paused
            /\ toolRuns'[t] = toolRuns[t] + 1 => ~paused
            /\ paused' # paused => UNCHANGED <<taskVars, stepVars, signal, heap>>
            /\ (Blocked(t) /\ ~paused /\ pc'[t] # pc[t])
               => \/ pc[t] = "waitUntilStep" /\ pc'[t] = "think"
                  \/ pc[t] = "waitUntilTool" /\ pc'[t] = "tool"
                  \/ pc[t] = "waitUntilTool" /\ res'[t].data = ToolNotFound(act[t].name)]_vars
    /\ \A t \in Tasks : (pc[t] = "tool") ~> (pc[t] # "tool")
    /\ \A t \in Tasks : <>[](~paused) => <>[](~Blocked(t))

\* A call blocked before its tool's dispatch for as long as waitUntil allows
PauseBlocksWitness ==
    /\ paused
    /\ pc[1] = "waitUntilTool"
    /\ polls[1] = PollLimit
    /\ step[1] = 1

\* C20 as stated: a tool executor runs only for an action object that has
\* exactly one key.
SingleKey == \A t \in Tasks : pc[t] = "tool" => act[t].keys = 1

----------------------------------------------------------------------------
\* Claims about failures

\* The step of task t has run an element action and holds its output
ElementActionDone(t) ==
    /\ pc[t] \in {"delay", "onAfterStep"}
    /\ act[t].name \in IndexedTools

\* C21 as stated: an element action does not throw; when its index is not in
\* the SelectorMap or the page interaction fails it returns success = false;
\* the message it returns is the step's action output; and the loop goes on
\* to the next step (unless the step budget is used up or a hook throws).
ElementFailuresReported ==
    /\ [](\A t \in Tasks : ElementActionDone(t)
            => /\ ~(actionResult.call.found /\ actionResult.call.interacted)
                    => actionResult.result.success = FALSE
               /\ out[t] = actionResult.result.message)
    /\ [][\A t \in Tasks :
            /\ (pc[t] = "tool" /\ act[t].name \in IndexedTools)
                  => pc'[t] \in {"tool", "delay"}
            /\ (ElementActionDone(t) /\ pc'[t] \notin {"delay", "onAfterStep"})
                  => \/ pc'[t] = "onBeforeStep"
                     \/ step'[t] > MAX_STEPS
                     \/ res'[t].data = HookError]_vars

\* C22 as stated: an action that names a tool the registry does not have
\* does not end the task: no call's result is the lookup's error.
UnknownToolContinues ==
    \A t \in Tasks : \A a \in ActionObjects :
        ~Registered(a.name) => res[t].data # ToolNotFound(a.name)

\* C23 as stated: a call of execute never rejects, and an error raised in it
\* gives a result with success = false that carries the error's message.
ExecuteNeverRejects ==
    \A t \in Tasks :
        /\ pc[t] # "rejected"
        /\ (pc[t] = "returned" /\ res[t].via = "catch")
              => res[t].success = FALSE /\ res[t].data # "none"

\* The message ends with the warning about new tabs
NewTabWarned(message) ==
    \E said \in {"Clicked element", "Failed to click element",
                 "Failed to click element: no element at index"} :
        message = said \o NewTabWarning

\* C24: a click that succeeded on a node whose target is _blank returns
\* success = true and a message with the warning about new tabs, which is the
\* step's action output; a click on a node without that target, or on an
\* index without a node, gives a message without the warning.
TargetBlankClick ==
    \A t \in Tasks :
        (ElementActionDone(t) /\ actionResult.call.method = "clickElement")
        => /\ (actionResult.call.target = "_blank" /\ actionResult.call.interacted)
                 => /\ actionResult.result.success
                    /\ NewTabWarned(actionResult.result.message)
                    /\ out[t] = actionResult.result.message
           /\ actionResult.call.target # "_blank"
                 => /\ ~NewTabWarned(actionResult.result.message)
                    /\ ~NewTabWarned(out[t])

TargetBlankClickWitness ==
    /\ pc[1] = "onAfterStep"
    /\ step[1] = 1
    /\ actionResult.call = Call("clickElement", TRUE, "_blank", TRUE)
    /\ NewTabWarned(out[1])

\* The messages clickElement returns for a click that failed
ClickFailures == {"Failed to click element",
                  "Failed to click element: no element at index"}

\* C38 as stated: clickElement returns success = true only when the click
\* on the node's locator succeeded, whatever the node's target is, and a
\* click that failed returns success = false with the failure message.
ClickSuccessIsClick ==
    actionResult.call.method = "clickElement"
    => /\ actionResult.result.success
             => actionResult.call.found /\ actionResult.call.interacted
       /\ ~(actionResult.call.found /\ actionResult.call.interacted)
             => /\ actionResult.result.success = FALSE
                /\ actionResult.result.message \in ClickFailures

\* C27 as stated: an exception raised by an element during the walk does
\* not fail the refresh and the task: no call ends with that error.
ExtractionTotal == \A t \in Tasks : res[t].data # ElementError

\* A tool of call t is running, or the delay after it, and the call's signal
\* is aborted
AbortedDuringTool(t) ==
    /\ pc[t] \in {"tool", "delay"}
    /\ aborted(abortController)

\* C28 as stated: once the signal is aborted while a tool is running or in
\* the delay after it, the call makes no further LLM call and a result it
\* returns has success = false, whatever the tool.
AbortDuringTool ==
    \A t \in Tasks :
        [](AbortedDuringTool(t)
           => [](/\ pc[t] \notin {"prompt", "llm"}
                 /\ pc[t] = "returned" => res[t].success = FALSE))

\* C29 as stated: a wait counts once, so its return raises the accumulator
\* by no more than the seconds it asked for (the tool waits at most that
\* long); the note is on the output exactly when the accumulator is >= 3;
\* the return of any other tool sets the accumulator to 0.
WaitAccumulator ==
    [][\A t \in Tasks :
        (pc[t] = "tool" /\ pc'[t] = "delay")
        => IF act[t].name = "wait"
           THEN /\ totalWaitTime' - totalWaitTime <= act[t].input.seconds
                /\ (out'[t] = "Waited, do NOT wait any longer") <=> (totalWaitTime' >= 3)
           ELSE totalWaitTime' = 0]_vars

\* C30 as stated: scroll applies an amount >= 0 when down is true and <= 0
\* when down is false, whether the distance came as num_pages or as pixels,
\* and scrollHorizontally an amount >= 0 when right is true and <= 0 when
\* right is false.
ScrollDirection ==
    /\ scrolled.method = "scroll"
          => IF scrolled.options.down THEN scrolled.amount >= 0 ELSE scrolled.amount <= 0
    /\ scrolled.method = "scrollHorizontally"
          => IF scrolled.options.right THEN scrolled.amount >= 0 ELSE scrolled.amount <= 0

\* C31 as stated: a call of scroll moves the container only if its index
\* resolves, moves the window only as the fallback, never moves both, and
\* returns success with a message naming the one it scrolled.
ScrollTarget ==
    [][scrolled'.method = "scroll"
       => LET resolves == element(scrolled'.options.index)
              containerMoved == scrollContainer' # scrollContainer
              windowMoved == window' # window
          IN  /\ scrolled'.result.success
              /\ ~(containerMoved /\ windowMoved)
              /\ containerMoved => resolves /\ scrolled'.by = "container"
              /\ windowMoved => scrolled'.by = "page"
              /\ ~resolves => scrolled'.by = "page"]_vars

\* isInteractiveElement has returned
Classified == classified.called

\* C32 as stated: an element is classified interactive if and only if at
\* least one of the five conditions holds.
InteractiveAnyOf ==
    Classified =>
        LET el == classified.element IN
        classified.isInteractive
        <=> \/ el.tagName \in interactiveElements /\ ~el.disabled /\ ~el.readOnly
            \/ el.cursor \in interactiveCursors
            \/ el.isContentEditable \/ el.contenteditable = "true"
            \/ el.role \in interactiveRoles
            \/ el.onclickAttribute \/ el.onclick

\* C34 as stated: a call returns only from its onAfterTask, and once
\* onAfterTask has been called with a result it is not called again with
\* another: the result the call returns is the one the hook was given.
AfterTaskOnce ==
    [][\A t \in Tasks :
        /\ (pc'[t] = "returned" /\ pc[t] # "returned") => pc[t] = "onAfterTask"
        /\ pc[t] = "onAfterTask" => res'[t] = res[t]]_vars

\* Call t was running as the later call u replaced the abort controller
Superseded(t, u) ==
    /\ t < u
    /\ Running(t)
    /\ pc[u] \notin {"idle", "onBeforeTask"}

\* C35 as stated: a call that a later call has superseded starts no tool,
\* appends nothing to the history, which is the new task's, and returns
\* success = false.
OneCallOneTask ==
    [][\A t \in Tasks, u \in Tasks :
        Superseded(t, u)
        => /\ pc[t] # "tool" => pc'[t] # "tool"
           /\ heap'[history] # heap[history]
                 => \A k \in 1..Len(heap'[history]) : heap'[history][k].task # t
           /\ pc'[t] = "returned" => res'[t].success = FALSE]_vars

\* C39 as stated: when the first step of a call starts and no other call is
\* running, the accumulator of the wait tool is 0: the waits of a call that
\* has ended do not count for the next one.
WaitAccumulatorPerTask ==
    \A t \in Tasks :
        (/\ pc[t] = "onBeforeStep"
         /\ step[t] = 0
         /\ \A u \in Tasks \ {t} : ~Running(u))
        => totalWaitTime = 0

\* C36 as stated: from a dispose() that arrives while a call is running, an
\* LLM call of that call is in flight only if it was made before the
\* dispose() and aborted by it, and a result the call returns has
\* success = false.
AbortNeverLost ==
    \A t \in Tasks :
        []((Running(t) /\ ~disposed)
           => [](disposed
                 => [](/\ pc[t] = "llm" => \E r \in DisposeReasons : DisposedMidCall(t, r)
                       /\ pc[t] = "returned" => res[t].success = FALSE)))

(* C37: a call that is blocked on paused = TRUE, at the start of a step or
   before the dispatch of a tool, when the controller has been aborted,
   starts no tool afterwards: the step that ends its wait ends the call
   in the catch block.  The wait of the step may go on to the LLM call,
   which is made with the aborted signal; the statement is about the
   wait before the dispatch, where nothing reads the signal again. *)
AbortWhilePaused ==
    [][\A t \in Tasks :
        (pc[t] \in {"waitUntilStep", "waitUntilTool"} /\ aborted(abortController))
        => /\ toolRuns'[t] = toolRuns[t]
           /\ pc'[t] # "tool"]_vars

----------------------------------------------------------------------------
\* Claims about the tool registry

\* The constructor has run
Constructed == thisTools # NoTools

\* The tool names #packMacroTool builds the action schema from
actionSchemas == DOMAIN thisTools

ScriptToolEnabled == config.experimentalScriptExecutionTool = "true"

\* C18: unless experimentalScriptExecutionTool is true, the registry of a
\* constructed agent, and so the action schema, has no execute_javascript,
\* whatever customTools holds.
ScriptToolGated ==
    (Constructed /\ ~ScriptToolEnabled)
    => /\ "execute_javascript" \notin DOMAIN thisTools
       /\ "execute_javascript" \notin actionSchemas

\* The caller supplied a script tool of its own and left the flag out
ScriptToolGatedWitness ==
    /\ Constructed
    /\ config.experimentalScriptExecutionTool = "absent"
    /\ "execute_javascript" \in DOMAIN config.customTools
    /\ config.customTools["execute_javascript"] = "custom"
    /\ "custom_tool" \in DOMAIN thisTools

\* What customTools asks for under name n holds in the registry
CustomToolApplied(n) ==
    IF n \in DOMAIN config.customTools
    THEN IF config.customTools[n] = "null" THEN n \notin DOMAIN thisTools
         ELSE n \in DOMAIN thisTools /\ thisTools[n] = config.customTools[n]
    ELSE n \in DOMAIN tools => (n \in DOMAIN thisTools /\ thisTools[n] = tools[n])

\* C19 as stated: after construction every name of customTools is removed
\* (null) or mapped to the supplied tool, and every default tool customTools
\* does not name is registered.
CustomToolsApplied ==
    Constructed => \A n \in DOMAIN tools \cup DOMAIN config.customTools : CustomToolApplied(n)

\* C19 as amended: the same for every name but execute_javascript, which is
\* registered, as customTools or the defaults give it, only when
\* experimentalScriptExecutionTool is true; and the registry has no other name.
CustomToolsAppliedButScript ==
    Constructed
    => /\ \A n \in (DOMAIN tools \cup DOMAIN config.customTools) \ {"execute_javascript"} :
             CustomToolApplied(n)
       /\ ScriptToolEnabled => CustomToolApplied("execute_javascript")
       /\ ~ScriptToolEnabled => "execute_javascript" \notin DOMAIN thisTools
       /\ DOMAIN thisTools \subseteq DOMAIN tools \cup DOMAIN config.customTools

\* A default removed, a default replaced, a tool added, the script tool enabled
CustomToolsAppliedWitness ==
    /\ Constructed
    /\ ScriptToolEnabled
    /\ DOMAIN config.customTools = {"done", "wait", "custom_tool"}
    /\ config.customTools["done"] = "null"
    /\ thisTools["wait"] = "custom"
    /\ thisTools["custom_tool"] = "custom"
    /\ thisTools["execute_javascript"] = "default"

----------------------------------------------------------------------------
\* Claims about the serialization

\* The elements of the page in document order, from element e on
RECURSIVE documentOrder(_)
RECURSIVE documentOrders(_)
documentOrders(kids) ==
    IF kids = <<>> THEN <<>> ELSE documentOrder(Head(kids)) \o documentOrders(Tail(kids))

documentOrder(e) == <<e>> \o documentOrders(childElements(document, e))

\* The content of the text node of element e as the pass records it
TextOf(e) == trim(document.elements[e].text)

\* The nearest element, from e upwards, that the newest pass gave an index
\* (its marker is on the page); 0 when there is none
RECURSIVE NearestIndexed(_)
NearestIndexed(e) ==
    IF e = 0 THEN 0
    ELSE IF document.markers[e] # NoMarker THEN e
    ELSE NearestIndexed(document.parent[e])

\* The texts, in document order, of the text nodes among `order` whose nearest
\* indexed ancestor is element a
RECURSIVE TextsUnder(_, _)
TextsUnder(a, order) ==
    IF order = <<>> THEN <<>>
    ELSE (IF TextOf(Head(order)) # <<>> /\ NearestIndexed(Head(order)) = a
          THEN <<TextOf(Head(order))>> ELSE <<>>)
         \o TextsUnder(a, Tail(order))

FoldOf(a) == trim(join(TextsUnder(a, documentOrder(Body))))

\* What the page calls for, in document order: a line for each indexed
\* element, and a bare line for each text node that has no indexed ancestor
\* and whose parent is visible and topmost
RECURSIVE Emits(_)
Emits(order) ==
    IF order = <<>> THEN <<>>
    ELSE LET e == Head(order)
         IN  (IF document.markers[e] # NoMarker
              THEN <<[kind |-> "element", of |-> e]>> ELSE <<>>)
             \o (IF /\ TextOf(e) # <<>>
                    /\ NearestIndexed(e) = 0
                    /\ document.elements[e].visible
                    /\ Topmost(document.elements[e])
                 THEN <<[kind |-> "text", of |-> e]>> ELSE <<>>)
             \o Emits(Tail(order))

\* The lines flatTreeToString pushes for the newest snapshot
EmittedLines == processNode(DomMap, controller.flatTree.rootId, 0)

\* C11: the serialization is made of one line per indexed element and one
\* bare line per text node without an indexed ancestor, in document order, so
\* no text node under an indexed element is emitted as a bare line; and the
\* text shown in the line of an indexed element is the texts of exactly the
\* text nodes whose nearest indexed ancestor it is, those inside a nested
\* indexed element left out.
TextFold ==
    passDone =>
        LET emits == Emits(documentOrder(Body))
        IN  /\ join(EmittedLines) = controller.simplifiedHTML
            /\ Len(EmittedLines) = Len(emits)
            /\ \A k \in 1..Len(emits) :
                  LET line == EmittedLines[k]
                      e == emits[k].of
                  IN  IF emits[k].kind = "text" THEN trim(line) = TextOf(e)
                      ELSE LET fold == FoldOf(e)
                               tail == (IF fold # <<>> THEN <<">">> \o fold ELSE <<>>)
                                       \o <<" ", "/", ">">>
                               cut == Len(line) - Len(tail)
                           IN  /\ cut > 0
                               /\ SubSeq(line, cut + 1, Len(line)) = tail
                               /\ \A j \in 1..cut : line[j] # ">"
                               /\ lineIndex(trimStart(line)) = document.markers[e]

\* The number of indexed elements above element e
RECURSIVE IndexedAncestors(_)
IndexedAncestors(e) ==
    IF document.parent[e] = 0 THEN 0
    ELSE (IF document.markers[document.parent[e]] # NoMarker THEN 1 ELSE 0)
         + IndexedAncestors(document.parent[e])

\* The text node of element e is there and has a bare line of its own
BareLine(e) ==
    LET emits == Emits(documentOrder(Body))
    IN  /\ Len(EmittedLines) = Len(emits)
        /\ \E k \in 1..Len(emits) : /\ emits[k] = [kind |-> "text", of |-> e]
                                    /\ EmittedLines[k] = repeat(0) \o TextOf(e)
        /\ Cardinality({k \in 1..Len(emits) : emits[k] = [kind |-> "text", of |-> e]}) = 1

\* C33: a text node has a bare line if and only if its parent element is
\* visible and topmost and none of its ancestors has an index; the line is
\* the text at depth 0, and the line of an indexed element is indented by
\* the number of its indexed ancestors; the serialization has no other line.
BareTextLines ==
    passDone =>
        LET emits == Emits(documentOrder(Body))
        IN  /\ Len(EmittedLines) = Len(emits)
            /\ \A e \in Nodes :
                  TextOf(e) # <<>>
                  => (BareLine(e) <=> /\ document.elements[e].visible
                                      /\ Topmost(document.elements[e])
                                      /\ document.markers[e] = NoMarker
                                      /\ IndexedAncestors(e) = 0)
            /\ \A k \in 1..Len(emits) :
                  /\ emits[k].kind = "text" => TextOf(emits[k].of) # <<>> /\ BareLine(emits[k].of)
                  /\ emits[k].kind = "element"
                        => LET depthStr == repeat(IndexedAncestors(emits[k].of))
                               line == EmittedLines[k]
                           IN  /\ Len(line) > Len(depthStr)
                               /\ SubSeq(line, 1, Len(depthStr)) = depthStr
                               /\ line[Len(depthStr) + 1] = "["

\* A pass over an indexed body with a text of its own and, inside it, a
\* visible element without an index that has a text: that text has no line,
\* the text of an element that is not under any index has one
BareTextLinesWitness ==
    /\ passDone
    /\ \E e \in Nodes :
          /\ TextOf(e) # <<>>
          /\ document.markers[e] = NoMarker
          /\ document.elements[e].visible
          /\ IndexedAncestors(e) = 1
          /\ ~BareLine(e)

\* An indexed element with a text inside an indexed body with another text
TextFoldWitness ==
    /\ passDone
    /\ document.markers[Body] = 0
    /\ \E e \in Nodes : /\ document.parent[e] = Body
                        /\ document.markers[e] = 1
                        /\ TextOf(e) # <<>>
                        /\ TextOf(Body) # <<>>
                        /\ TextOf(e) # TextOf(Body)

====
